---- MODULE Spec2Model ----
(***************************************************************************)
(* The pipeline engine of news-reader / fetcher: the read-filter ledger    *)
(* shared by concurrent fetch cycles behind a reader/writer lock, and the  *)
(* per-entry transform step with its field-merge fallback.                 *)
(*                                                                         *)
(* Entry ids are modelled as naturals 1..MaxId; a greater number is a      *)
(* more recently published entry.  A source yields its listing newest      *)
(* first (src/source/rss.rs:52-59).  Option<T> is a sequence of length at  *)
(* most one: None is <<>> and Some(x) is <<x>>.                            *)
(***************************************************************************)
EXTENDS Naturals, Integers, Sequences, FiniteSets, TLC

\* number of entries the source publishes over the life of a behaviour
MaxId == 3
\* number of fetch cycles (sources) sharing one ReadFilter
NumRuns == 2

Runs == 1..NumRuns
Ids == 1..MaxId

None == << >>
Some(x) == << x >>

RECURSIVE Reverse(_)
Reverse(s) == IF s = << >> THEN << >> ELSE Append(Reverse(Tail(s)), Head(s))

Range(s) == { s[i] : i \in 1..Len(s) }

\* Iterator::position: index of the first element equal to x, 0 when absent
Position(list, x) ==
    IF \E i \in 1..Len(list) : list[i] = x
    THEN CHOOSE i \in 1..Len(list) : list[i] = x /\ \A j \in 1..(i - 1) : list[j] # x
    ELSE 0

----------------------------------------------------------------------------
(* The read filter (ledger).                                               *)

KindNewer == "NewerThanLastRead"
KindNotPresent == "NotPresentInReadList"

\* read_filter::newer::Newer { last_read_id: Option<String> }
NewerNew == [kind |-> KindNewer, last_read_id |-> None, read_list |-> << >>]
\* read_filter::not_present::NotPresent { read_list }
NotPresentNew == [kind |-> KindNotPresent, last_read_id |-> None, read_list |-> << >>]

\* NewerThanLastRead: an id of the listing is read iff it is last_read_id or
\* comes after it in the newest-first listing; everything from the position
\* of last_read_id on is removed.  A listing without last_read_id loses nothing.
NewerRemoveReadFrom(last_read_id, list) ==
    IF last_read_id = None THEN list
    ELSE LET pos == Position(list, last_read_id[1])
         IN IF pos = 0 THEN list ELSE SubSeq(list, 1, pos - 1)

\* NotPresentInReadList: retain the ids not present in read_list
RECURSIVE NotPresentRemoveReadFrom(_, _)
NotPresentRemoveReadFrom(read_list, list) ==
    IF list = << >> THEN << >>
    ELSE LET rest == NotPresentRemoveReadFrom(read_list, Tail(list))
         IN IF Head(list) \in Range(read_list) THEN rest ELSE << Head(list) >> \o rest

\* ReadFilter::remove_read_from dispatches on the strategy
RemoveReadFrom(filter, list) ==
    IF filter.kind = KindNewer
    THEN NewerRemoveReadFrom(filter.last_read_id, list)
    ELSE NotPresentRemoveReadFrom(filter.read_list, list)

\* a watermark that only ever moves forward
NewerMarkAsReadMonotonic(filter, id) ==
    IF filter.last_read_id # None /\ filter.last_read_id[1] >= id THEN filter
    ELSE [filter EXCEPT !.last_read_id = Some(id)]

\* NewerThanLastRead.mark_as_read: last_read_id = id, unconditionally
NewerMarkAsRead(filter, id) == [filter EXCEPT !.last_read_id = Some(id)]

\* a plain push_back, with no regard to what the list holds
NotPresentMarkAsReadPush(filter, id) == [filter EXCEPT !.read_list = Append(@, id)]

\* NotPresentInReadList.mark_as_read: append id to the set
NotPresentMarkAsRead(filter, id) ==
    IF id \in Range(filter.read_list) THEN filter
    ELSE [filter EXCEPT !.read_list = Append(@, id)]

MarkAsReadIn(filter, id) ==
    IF filter.kind = KindNewer
    THEN NewerMarkAsRead(filter, id)
    ELSE NotPresentMarkAsRead(filter, id)

\* the strategy's classification of one id of a listing as already read
IsRead(filter, list, id) ==
    IF filter.kind = KindNewer
    THEN /\ filter.last_read_id # None
         /\ Position(list, filter.last_read_id[1]) # 0
         /\ Position(list, id) >= Position(list, filter.last_read_id[1])
    ELSE id \in Range(filter.read_list)

----------------------------------------------------------------------------
(* Entries and the per-entry transform (Transform::transform_one).         *)

\* most entries in one batch handed to Transform::transform
MaxBatch == 3
\* most entries one input entry is expanded into
MaxOut == 2

\* Entry { id, raw_contents, msg: Message { title, body, link, media } }
Fields == {"id", "raw_contents", "title", "body", "link", "media"}

\* an entry whose fields in mask hold Some(v) and whose other fields are None
EntryOf(mask, v) == [f \in Fields |-> IF f \in mask THEN Some(v) ELSE None]

\* the value the k-th input entry carries, and the value the transform
\* gives the j-th entry it makes out of the k-th input entry
InValue(k) == k
OutValue(k, j) == 10 * k + j

\* field sets: every one for a batch of one entry, a few for longer batches
AllMasks == SUBSET Fields
EdgeMasks == { m \in SUBSET Fields : Cardinality(m) <= 1 \/ Cardinality(m) >= 5 }
FewMasks == { {"raw_contents", "link"}, {"id", "title", "link"} }

TransformErrorKinds == {"Html", "Json"}

\* Result<Vec<Entry>, TransformErrorKind> of the variant's own transform
OkResult(v) == [ok |-> TRUE, v |-> v, kind |-> "none"]
ErrResult(kind) == [ok |-> FALSE, v |-> << >>, kind |-> kind]

\* the lists of at most n new entries made from input k with fields from masks
RECURSIVE NewEntryLists(_, _, _)
NewEntryLists(k, masks, n) ==
    IF n = 0 THEN { << >> }
    ELSE LET shorter == NewEntryLists(k, masks, n - 1)
         IN shorter \cup
            { Append(v, EntryOf(m, OutValue(k, n))) :
                v \in { w \in shorter : Len(w) = n - 1 }, m \in masks }

\* every element of a fallback that hands the old field to each sibling
RECURSIVE MergeFallbackCloned(_, _)
MergeFallbackCloned(entry, v) ==
    IF v = << >> THEN << >>
    ELSE << [f \in Fields |-> IF Head(v)[f] # None THEN Head(v)[f] ELSE entry[f]] >>
             \o MergeFallbackCloned(entry, Tail(v))

\* a fallback in which the old entry's field wins over the new one
RECURSIVE MergeFallbackOldFirst(_, _)
MergeFallbackOldFirst(entry, v) ==
    IF v = << >> THEN << >>
    ELSE LET new_entry == Head(v)
             merged == [f \in Fields |->
                          IF entry[f] # None THEN entry[f] ELSE new_entry[f]]
             taken == [f \in Fields |-> None]
         IN << merged >> \o MergeFallbackOldFirst(taken, Tail(v))

\* v.into_iter().map(|new_entry| ..): new_entry.f.or_else(|| entry.f.take())
\* for every field, on the one mutable old entry, in order
RECURSIVE MergeFallback(_, _)
MergeFallback(entry, v) ==
    IF v = << >> THEN << >>
    ELSE LET new_entry == Head(v)
             merged == [f \in Fields |->
                          IF new_entry[f] # None THEN new_entry[f] ELSE entry[f]]
             taken == [f \in Fields |->
                          IF new_entry[f] # None THEN entry[f] ELSE None]
         IN << merged >> \o MergeFallback(taken, Tail(v))

\* Result<Vec<Entry>, TransformError> of transform_one
TransformOne(entry, res) ==
    IF res.ok
    THEN [ok |-> TRUE, entries |-> MergeFallback(entry, res.v),
          kind |-> "none", original_entry |-> None]
    ELSE [ok |-> FALSE, entries |-> << >>,
          kind |-> res.kind, original_entry |-> Some(entry)]

NoResult == [ok |-> FALSE, entries |-> << >>, kind |-> "none", original_entry |-> None]

----------------------------------------------------------------------------
(* One fetch cycle of a source.                                            *)

\* the read filter run on every entry by itself, as a per-entry transform would
RECURSIVE TransformReadFilterOneByOne(_, _)
TransformReadFilterOneByOne(filter, entries) ==
    IF entries = << >> THEN << >>
    ELSE RemoveReadFrom(filter, << Head(entries) >>)
             \o TransformReadFilterOneByOne(filter, Tail(entries))

\* Transform::transform, ReadFilter variant: the whole list is filtered
\* in place and returned
TransformReadFilter(filter, entries) == RemoveReadFrom(filter, entries)

\* the unread articles handed on in listing order, newest first
SendOrderNewestFirst(articles) == articles

\* Rss::get: the unread articles are handed on oldest first (.rev())
SendOrder(articles) == Reverse(articles)

VARIABLES
    feed,       \* the source's listing, newest first
    rf,         \* the shared ReadFilter behind Arc<RwLock<..>>
    readers,    \* runs holding the read lock
    writers,    \* runs holding the write lock
    pc,         \* position of each run
    batch,      \* entries a run fetched
    survivors,  \* entries left after the run's remove_read
    queue,      \* entries the run still has to send, in sending order
    delivered,  \* ids whose delivery has been confirmed at least once
    dropped,    \* ids a remove_read classified as read before any delivery
    marked,     \* ids mark_as_read has been called with
    filtered    \* the run whose remove_read was the last step taken, else 0

VARIABLES
    tpc,        \* position of Transform::transform: idle, filter, loop, done
    tvariant,   \* the Transform variant: "ReadFilter" or a per-entry one
    trf,        \* the ReadFilter the ReadFilter variant holds, else None
    tentries,   \* the entries it was called with
    ti,         \* number of entries the for loop has taken
    tacc,       \* fully_transformed_entries
    tret,       \* what transform returned
    traw,       \* for each entry taken, the result of the variant's transform
    tgroups     \* for each entry taken, the entries transform_one returned

VARIABLES
    spc,        \* position of Telegram::send: idle, attempt, sleep, done, panic
    smsg,       \* the Message send was called with
    sarg,       \* what send_text / send_media was called with
    sscript,    \* what the server is going to answer, attempt by attempt
    sn,         \* number of send attempts made
    sanswers,   \* the answers received so far
    ssent,      \* the payloads the attempts carried
    sslept,     \* the sleeps completed so far, in seconds
    spending,   \* the sleep in progress, in seconds
    sresult,    \* what send returned: none, ok, err
    sdelivered  \* number of messages the server accepted

VARIABLES
    apc,        \* position of GoogleAuth::access_token: idle, exchanging
    anow,       \* the monotonic clock, Instant::now()
    atoken,     \* self.access_token
    aexpires,   \* self.expires_in, the Instant the token expires at
    acalls,     \* number of access_token() calls made
    acalled,    \* Instant::now() as the last call read it
    aattempts,  \* exchanges made by the last call
    aissued,    \* number of tokens the server has issued
    aresp,      \* the last GoogleOAuth2Responce, None before the first
    aret        \* what the last call returned

VARIABLES
    ppc,        \* position of Task::parse: idle, rf, actions, map, build, done
    pcfg,       \* the config Task being parsed
    pext,       \* what the external data provider and the parts answer
    prf,        \* the local rf: None or Some(handle)
    pconsulted, \* the provider calls made so far, in order
    pactions,   \* the parsed actions, each with the rf it was parsed with
    pmap,       \* the local entry_to_msg_map
    pret        \* what parse returned

VARIABLES
    jpc,        \* position of Json::parse: idle, parse, items, done, panic
    jcfg,       \* the Json queries: itemq, titleq, textq, idq, linkq, imgq
    jbody,      \* entry.msg.body, as the document it holds
    jitems,     \* the items the item path led to, in iteration order
    ji,         \* number of items the map closure has been run on
    jacc,       \* the entries collected so far
    jret        \* what parse returned

VARIABLES
    cpc,        \* position of the stored read filter: idle, loaded, parsed,
                \* unparsed, error
    craw,       \* the stored document, as the fields it holds
    ccfg,       \* the config::ReadFilter deserialized from it
    cfilter,    \* the read_filter::Inner parse built
    csaved      \* what unparse returned: None or Some(config::ReadFilter)

VARIABLES
    mpc,        \* position of the Email source: idle, connect, authenticate,
                \* refresh, authenticate2, session, store, expunge, logout
    mview,      \* self.view_mode: MarkAsRead, Delete, ReadOnly
    mauth,      \* self.auth: GmailOAuth2 or Password
    mbox,       \* the INBOX: for each uid whether it is there, \Seen,
                \* \Deleted
    mop,        \* the operation in progress: none, fetch, mark_as_read
    mid,        \* the uid mark_as_read was called with
    mret,       \* the last operation that returned, and what it returned
    mro,        \* set_read_only() has been called
    mlog,       \* the login of the operation in progress, event by event
    mcalls      \* number of fetch and mark_as_read calls made

VARIABLES
    wpc,        \* position of TwitterNewsReader::start: idle, loop
    wtweets,    \* the timeline: for each tweet id whether its text has the filters
    wfilters,   \* self.filters is Some
    wsaved,     \* the stored last read guid: None or Some(string)
    wlast,      \* the local last_read_guid of send_news
    wqueue,     \* the tweets the for loop has still to take, oldest first
    wsent,      \* ids whose send returned Ok in the run
    wskipped,   \* ids the filters skipped in the run
    wdelivered, \* for each id, how many times it has been delivered
    wbefore,    \* the stored value when the run started
    wret,       \* what the last start returned
    wstarts     \* number of start calls made

VARIABLES
    hpc,        \* position of the built task: idle, built
    htask,      \* the source and the actions of the CTask Task::parse built
    hheap,      \* the RwLock<ReadFilter> each Arc points to
    hone,       \* what one ledger would hold after the same mark_as_read calls
    hmarks,     \* number of mark_as_read calls made
    hmark,      \* the last mark_as_read: its holder and id
    hremove     \* the last remove_read after it: its holder, listing and result

lvars == << feed, rf, readers, writers, pc, batch, survivors, queue,
            delivered, dropped, marked, filtered >>
tvars == << tpc, tvariant, trf, tentries, ti, tacc, tret, traw, tgroups >>
svars == << spc, smsg, sarg, sscript, sn, sanswers, ssent, sslept, spending,
            sresult, sdelivered >>
avars == << apc, anow, atoken, aexpires, acalls, acalled, aattempts, aissued,
            aresp, aret >>
pvars == << ppc, pcfg, pext, prf, pconsulted, pactions, pmap, pret >>
jvars == << jpc, jcfg, jbody, jitems, ji, jacc, jret >>
cvars == << cpc, craw, ccfg, cfilter, csaved >>
mvars == << mpc, mview, mauth, mbox, mop, mid, mret, mro, mlog, mcalls >>
wvars == << wpc, wtweets, wfilters, wsaved, wlast, wqueue, wsent, wskipped,
            wdelivered, wbefore, wret, wstarts >>
hvars == << hpc, htask, hheap, hone, hmarks, hmark, hremove >>
vars == << lvars, tvars, svars, avars, pvars, jvars,
          cvars, mvars, wvars, hvars >>

\* what an action of one part of the program leaves alone
nonLedger ==
    << tvars, svars, avars, pvars, jvars, cvars, mvars, wvars, hvars >>
nonTransform ==
    << lvars, svars, avars, pvars, jvars, cvars, mvars, wvars, hvars >>
nonSink == << lvars, tvars, avars, pvars, jvars, cvars, mvars, wvars, hvars >>
nonAuth == << lvars, tvars, svars, pvars, jvars, cvars, mvars, wvars, hvars >>
nonParse ==
    << lvars, tvars, svars, avars, jvars, cvars, mvars, wvars, hvars >>
nonJson == << lvars, tvars, svars, avars, pvars, cvars, mvars, wvars, hvars >>
nonConfig ==
    << lvars, tvars, svars, avars, pvars, jvars, mvars, wvars, hvars >>
nonMail == << lvars, tvars, svars, avars, pvars, jvars, cvars, wvars, hvars >>
nonTwitter ==
    << lvars, tvars, svars, avars, pvars, jvars, cvars, mvars, hvars >>
nonTask == << lvars, tvars, svars, avars, pvars, jvars, cvars, mvars, wvars >>

\* Transform::transform has not been called
TransformIdle ==
    /\ tpc = "idle"
    /\ tvariant = "none"
    /\ trf = None
    /\ tentries = << >>
    /\ ti = 0
    /\ tacc = << >>
    /\ tret = NoResult
    /\ traw = << >>
    /\ tgroups = << >>

\* Telegram::send has not been called
SinkIdle ==
    /\ spc = "idle"
    /\ smsg = None
    /\ sarg = None
    /\ sscript = None
    /\ sn = 0
    /\ sanswers = << >>
    /\ ssent = {}
    /\ sslept = << >>
    /\ spending = 0
    /\ sresult = "none"
    /\ sdelivered = 0

\* Result<&str> of access_token()
NoToken == [ok |-> FALSE, token |-> 0, kind |-> "none"]
OkToken(token) == [ok |-> TRUE, token |-> token, kind |-> "none"]
ErrToken(kind) == [ok |-> FALSE, token |-> 0, kind |-> kind]

\* no GoogleAuth has been made
AuthIdle ==
    /\ apc = "idle"
    /\ anow = 0
    /\ atoken = 0
    /\ aexpires = 0
    /\ acalls = 0
    /\ acalled = 0
    /\ aattempts = 0
    /\ aissued = 0
    /\ aresp = None
    /\ aret = NoToken

\* Result<CTask, Error> of Task::parse
NoTask == [ok |-> FALSE, err |-> "none", task |-> None]
OkTask(task) == [ok |-> TRUE, err |-> "none", task |-> Some(task)]
ErrTask(err) == [ok |-> FALSE, err |-> err, task |-> None]

\* Task::parse has not been called
ParseIdle ==
    /\ ppc = "idle"
    /\ pcfg = None
    /\ pext = None
    /\ prf = None
    /\ pconsulted = << >>
    /\ pactions = << >>
    /\ pmap = None
    /\ pret = NoTask

\* Result<Vec<Entry>> of Json::parse; err is None or Some(error)
NoEntries == [ok |-> FALSE, entries |-> << >>, err |-> None]
OkEntries(entries) == [ok |-> TRUE, entries |-> entries, err |-> None]
ErrEntries(err) == [ok |-> FALSE, entries |-> << >>, err |-> Some(err)]

\* Json::parse has not been called
JsonIdle ==
    /\ jpc = "idle"
    /\ jcfg = None
    /\ jbody = None
    /\ jitems = << >>
    /\ ji = 0
    /\ jacc = << >>
    /\ jret = NoEntries

\* no stored read filter has been loaded
ConfigIdle ==
    /\ cpc = "idle"
    /\ craw = None
    /\ ccfg = None
    /\ cfilter = None
    /\ csaved = None

\* what an operation of the Email source returned
NoReturn == [op |-> "none", id |-> 0, ret |-> "none"]

\* no Email source has been made
MailIdle ==
    /\ mpc = "idle"
    /\ mview = "none"
    /\ mauth = "none"
    /\ mbox = << >>
    /\ mop = "none"
    /\ mid = 0
    /\ mret = NoReturn
    /\ mro = FALSE
    /\ mlog = << >>
    /\ mcalls = 0

\* no TwitterNewsReader has been made
TwitterIdle ==
    /\ wpc = "idle"
    /\ wtweets = << >>
    /\ wfilters = FALSE
    /\ wsaved = None
    /\ wlast = None
    /\ wqueue = << >>
    /\ wsent = {}
    /\ wskipped = {}
    /\ wdelivered = << >>
    /\ wbefore = None
    /\ wret = "none"
    /\ wstarts = 0

\* no task has been built
TaskIdle ==
    /\ hpc = "idle"
    /\ htask = None
    /\ hheap = << >>
    /\ hone = None
    /\ hmarks = 0
    /\ hmark = None
    /\ hremove = None

\* the parts of the program below have not started
RestIdle ==
    /\ ConfigIdle
    /\ MailIdle
    /\ TwitterIdle
    /\ TaskIdle

Init ==
    /\ feed = << >>
    /\ rf \in {NewerNew, NotPresentNew}
    /\ readers = {}
    /\ writers = {}
    /\ pc = [p \in Runs |-> "idle"]
    /\ batch = [p \in Runs |-> << >>]
    /\ survivors = [p \in Runs |-> << >>]
    /\ queue = [p \in Runs |-> << >>]
    /\ delivered = {}
    /\ dropped = {}
    /\ marked = {}
    /\ filtered = 0
    /\ TransformIdle
    /\ SinkIdle
    /\ AuthIdle
    /\ ParseIdle
    /\ JsonIdle
    /\ RestIdle

\* the source publishes a new entry, newer than every earlier one
Publish ==
    /\ Len(feed) < MaxId
    /\ feed' = << Len(feed) + 1 >> \o feed
    /\ filtered' = 0
    /\ UNCHANGED << rf, readers, writers, pc, batch, survivors, queue,
                    delivered, dropped, marked >>
    /\ UNCHANGED nonLedger

\* Source fetch: the run takes the current listing
Fetch(p) ==
    /\ pc[p] = "idle"
    /\ feed # << >>
    /\ batch' = [batch EXCEPT ![p] = feed]
    /\ pc' = [pc EXCEPT ![p] = "want_read"]
    /\ filtered' = 0
    /\ UNCHANGED << feed, rf, readers, writers, survivors, queue,
                    delivered, dropped, marked >>
    /\ UNCHANGED nonLedger

\* a reader that enters the ledger without waiting for the writer
AcquireReadUnguarded(p) ==
    /\ pc[p] = "want_read"
    /\ readers' = readers \cup {p}
    /\ pc' = [pc EXCEPT ![p] = "reading"]
    /\ filtered' = 0
    /\ UNCHANGED << feed, rf, writers, batch, survivors, queue,
                    delivered, dropped, marked >>
    /\ UNCHANGED nonLedger

\* rf.read().await: granted while no writer holds the lock
AcquireRead(p) ==
    /\ pc[p] = "want_read"
    /\ writers = {}
    /\ readers' = readers \cup {p}
    /\ pc' = [pc EXCEPT ![p] = "reading"]
    /\ filtered' = 0
    /\ UNCHANGED << feed, rf, writers, batch, survivors, queue,
                    delivered, dropped, marked >>
    /\ UNCHANGED nonLedger

\* a filter step that also records the newest survivor in the ledger
RemoveReadMarking(p) ==
    /\ pc[p] = "reading"
    /\ LET kept == TransformReadFilter(rf, batch[p])
       IN /\ survivors' = [survivors EXCEPT ![p] = kept]
          /\ queue' = [queue EXCEPT ![p] = SendOrder(kept)]
          /\ dropped' = dropped \cup ((Range(batch[p]) \ Range(kept)) \ delivered)
          /\ pc' = [pc EXCEPT ![p] = IF kept = << >> THEN "idle" ELSE "sending"]
          /\ rf' = IF kept = << >> THEN rf ELSE MarkAsReadIn(rf, Head(kept))
    /\ readers' = readers \ {p}
    /\ batch' = [batch EXCEPT ![p] = IF survivors'[p] = << >> THEN << >> ELSE @]
    /\ filtered' = p
    /\ UNCHANGED << feed, writers, delivered, marked >>
    /\ UNCHANGED nonLedger

\* remove_read_from under the read guard, which is dropped at the end of
\* the statement; the survivors are queued for sending, and a run with
\* nothing left to send is over
RemoveRead(p) ==
    /\ pc[p] = "reading"
    /\ LET kept == TransformReadFilter(rf, batch[p])
       IN /\ survivors' = [survivors EXCEPT ![p] = kept]
          /\ queue' = [queue EXCEPT ![p] = SendOrder(kept)]
          /\ dropped' = dropped \cup ((Range(batch[p]) \ Range(kept)) \ delivered)
          /\ pc' = [pc EXCEPT ![p] = IF kept = << >> THEN "idle" ELSE "sending"]
    /\ readers' = readers \ {p}
    /\ batch' = [batch EXCEPT ![p] = IF survivors'[p] = << >> THEN << >> ELSE @]
    /\ filtered' = p
    /\ UNCHANGED << feed, rf, writers, delivered, marked >>
    /\ UNCHANGED nonLedger

\* Sink::send succeeded for the entry at the head of the queue
SendOk(p) ==
    /\ pc[p] = "sending"
    /\ delivered' = delivered \cup {Head(queue[p])}
    /\ pc' = [pc EXCEPT ![p] = "want_write"]
    /\ filtered' = 0
    /\ UNCHANGED << feed, rf, readers, writers, batch, survivors, queue,
                    dropped, marked >>
    /\ UNCHANGED nonLedger

\* Sink::send failed: the run ends with the error, nothing is marked
SendErr(p) ==
    /\ pc[p] = "sending"
    /\ batch' = [batch EXCEPT ![p] = << >>]
    /\ survivors' = [survivors EXCEPT ![p] = << >>]
    /\ queue' = [queue EXCEPT ![p] = << >>]
    /\ pc' = [pc EXCEPT ![p] = "idle"]
    /\ filtered' = 0
    /\ UNCHANGED << feed, rf, readers, writers, delivered, dropped, marked >>
    /\ UNCHANGED nonLedger

\* rf.write().await: granted while nobody holds the lock
AcquireWrite(p) ==
    /\ pc[p] = "want_write"
    /\ readers = {}
    /\ writers = {}
    /\ writers' = writers \cup {p}
    /\ pc' = [pc EXCEPT ![p] = "writing"]
    /\ filtered' = 0
    /\ UNCHANGED << feed, rf, readers, batch, survivors, queue,
                    delivered, dropped, marked >>
    /\ UNCHANGED nonLedger

\* mark_as_read(id) of the entry just delivered, under the write guard;
\* after the last entry the run is over
MarkAsRead(p) ==
    /\ pc[p] = "writing"
    /\ rf' = MarkAsReadIn(rf, Head(queue[p]))
    /\ marked' = marked \cup {Head(queue[p])}
    /\ writers' = writers \ {p}
    /\ queue' = [queue EXCEPT ![p] = Tail(@)]
    /\ IF Tail(queue[p]) = << >>
       THEN /\ pc' = [pc EXCEPT ![p] = "idle"]
            /\ batch' = [batch EXCEPT ![p] = << >>]
            /\ survivors' = [survivors EXCEPT ![p] = << >>]
       ELSE /\ pc' = [pc EXCEPT ![p] = "sending"]
            /\ UNCHANGED << batch, survivors >>
    /\ filtered' = 0
    /\ UNCHANGED << feed, readers, delivered, dropped >>
    /\ UNCHANGED nonLedger

----------------------------------------------------------------------------
(* Transform::transform over a batch, for the per-entry variants.          *)

\* the batches transform is called with
Batches ==
    { << EntryOf(m, InValue(1)) >> : m \in AllMasks } \cup
    UNION { [1..n -> { EntryOf(m, 0) : m \in FewMasks }] : n \in 0..MaxBatch }

\* the k-th entry of a batch carries InValue(k) in the fields it has
Numbered(b) ==
    [k \in 1..Len(b) |->
        [f \in Fields |-> IF b[k][f] # None THEN Some(InValue(k)) ELSE None]]

\* what the variant's transform may answer for the k-th entry of the batch
InnerResults(k, n) ==
    { ErrResult(kind) : kind \in TransformErrorKinds } \cup
    { OkResult(v) :
        v \in NewEntryLists(k, IF n = 1 THEN EdgeMasks ELSE FewMasks, MaxOut) }

\* the batches the ReadFilter variant is called with: every entry has an id
IdBatches ==
    UNION { [1..n -> { EntryOf(m, 0) : m \in { k \in FewMasks : "id" \in k } }] :
              n \in 0..MaxBatch }

\* the ReadFilter a task loaded: a fresh one or one that has marked entries
Ledgers ==
    { [NewerNew EXCEPT !.last_read_id = o] :
        o \in {None} \cup { Some(i) : i \in 1..MaxBatch } } \cup
    { [NotPresentNew EXCEPT !.read_list = l] :
        l \in {<< >>} \cup { << i >> : i \in 1..MaxBatch } \cup
              { << i, j >> : i \in 1..MaxBatch, j \in 1..MaxBatch } }

\* remove_read_from on a list of entries: the strategy looks at their ids
RemoveReadFromEntries(filter, entries) ==
    LET ids == [k \in 1..Len(entries) |-> entries[k]["id"][1]]
        kept == TransformReadFilter(filter, ids)
    IN [i \in 1..Len(kept) |-> entries[Position(ids, kept[i])]]

LedgerIdle ==
    /\ feed = << >>
    /\ rf = NewerNew
    /\ readers = {}
    /\ writers = {}
    /\ pc = [p \in Runs |-> "idle"]
    /\ batch = [p \in Runs |-> << >>]
    /\ survivors = [p \in Runs |-> << >>]
    /\ queue = [p \in Runs |-> << >>]
    /\ delivered = {}
    /\ dropped = {}
    /\ marked = {}
    /\ filtered = 0

InitT ==
    /\ LedgerIdle /\ TransformIdle /\ SinkIdle /\ AuthIdle /\ ParseIdle /\ JsonIdle
    /\ RestIdle

\* a transform that takes every variant through the for loop
TransformCallLoopsAll ==
    /\ tpc = "idle"
    /\ \/ /\ tvariant' = "ReadFilter"
          /\ \E filter \in Ledgers : trf' = Some(filter)
          /\ \E b \in IdBatches : tentries' = Numbered(b)
          /\ tpc' = "loop"
       \/ /\ tvariant' = "PerEntry"
          /\ trf' = None
          /\ \E b \in Batches : tentries' = Numbered(b)
          /\ tpc' = "loop"
    /\ UNCHANGED << ti, tacc, tret, traw, tgroups >>
    /\ UNCHANGED nonTransform

\* transform(entries) is called, on the ReadFilter variant or on a
\* per-entry one
TransformCall ==
    /\ tpc = "idle"
    /\ \/ /\ tvariant' = "ReadFilter"
          /\ \E filter \in Ledgers : trf' = Some(filter)
          /\ \E b \in IdBatches : tentries' = Numbered(b)
          /\ tpc' = "filter"
       \/ /\ tvariant' = "PerEntry"
          /\ trf' = None
          /\ \E b \in Batches : tentries' = Numbered(b)
          /\ tpc' = "loop"
    /\ UNCHANGED << ti, tacc, tret, traw, tgroups >>
    /\ UNCHANGED nonTransform

\* the ReadFilter variant: rf.read().await.remove_read_from(&mut entries)
\* on the whole list, which is then returned
TransformFilter ==
    /\ tpc = "filter"
    /\ tret' = [ok |-> TRUE, entries |-> RemoveReadFromEntries(trf[1], tentries),
                kind |-> "none", original_entry |-> None]
    /\ tpc' = "done"
    /\ UNCHANGED << tvariant, trf, tentries, ti, tacc, traw, tgroups >>
    /\ UNCHANGED nonTransform

\* an iteration that puts the entries it made in front of the earlier ones
TransformLoopPrepend ==
    /\ tpc = "loop"
    /\ ti < Len(tentries)
    /\ \E res \in InnerResults(ti + 1, Len(tentries)) :
          LET one == TransformOne(tentries[ti + 1], res)
          IN /\ traw' = Append(traw, res)
             /\ tgroups' = Append(tgroups, one.entries)
             /\ ti' = ti + 1
             /\ IF one.ok
                THEN /\ tacc' = one.entries \o tacc
                     /\ UNCHANGED << tpc, tret >>
                ELSE /\ tacc' = << >>
                     /\ tret' = one
                     /\ tpc' = "done"
    /\ UNCHANGED << tvariant, trf, tentries >>
    /\ UNCHANGED nonTransform

\* an iteration that drops the entry whose transform failed and goes on
TransformLoopSkipErrors ==
    /\ tpc = "loop"
    /\ ti < Len(tentries)
    /\ \E res \in InnerResults(ti + 1, Len(tentries)) :
          LET one == TransformOne(tentries[ti + 1], res)
          IN /\ traw' = Append(traw, res)
             /\ tgroups' = Append(tgroups, one.entries)
             /\ ti' = ti + 1
             /\ tacc' = tacc \o one.entries
             /\ UNCHANGED << tpc, tret >>
    /\ UNCHANGED << tvariant, trf, tentries >>
    /\ UNCHANGED nonTransform

\* one iteration of `for entry in entries`:
\* fully_transformed_entries.extend(self.transform_one(entry).await?);
\* transform_one of the ReadFilter variant is the unreachable!() panic
TransformLoop ==
    /\ tpc = "loop"
    /\ ti < Len(tentries)
    /\ IF tvariant = "ReadFilter"
       THEN /\ tpc' = "panic"
            /\ UNCHANGED << ti, tacc, tret, traw, tgroups >>
       ELSE \E res \in InnerResults(ti + 1, Len(tentries)) :
               LET one == TransformOne(tentries[ti + 1], res)
               IN /\ traw' = Append(traw, res)
                  /\ tgroups' = Append(tgroups, one.entries)
                  /\ ti' = ti + 1
                  /\ IF one.ok
                     THEN /\ tacc' = tacc \o one.entries
                          /\ UNCHANGED << tpc, tret >>
                     ELSE /\ tacc' = << >>
                          /\ tret' = one
                          /\ tpc' = "done"
    /\ UNCHANGED << tvariant, trf, tentries >>
    /\ UNCHANGED nonTransform

\* the loop is over: Ok(fully_transformed_entries)
TransformReturn ==
    /\ tpc = "loop"
    /\ ti = Len(tentries)
    /\ tret' = [ok |-> TRUE, entries |-> tacc, kind |-> "none", original_entry |-> None]
    /\ tpc' = "done"
    /\ UNCHANGED << tvariant, trf, tentries, ti, tacc, traw, tgroups >>
    /\ UNCHANGED nonTransform

NextT ==
    \/ TransformCall
    \/ TransformFilter
    \/ TransformLoop
    \/ TransformReturn

SpecT == InitT /\ [][NextT]_vars

----------------------------------------------------------------------------
(* The Telegram sink: Telegram::send and its send loops.                   *)

\* most "retry after" answers a server that stops retrying gives
MaxRetries == 2
\* the longest message the transport takes
MaxTextLen == 4096
\* length of the "..." that ends a truncated message
EllipsisLen == 3

\* the seconds a "retry after" answer may carry
RetrySecs == {1, 2}

\* a String: chars characters of width bytes each in UTF-8, followed by
\* ascii one-byte characters
Text(chars, width, ascii) == [chars |-> chars, width |-> width, ascii |-> ascii]
\* str::len: the length in bytes
StrLen(text) == text.chars * text.width + text.ascii
\* str::chars().count()
CharCount(text) == text.chars + text.ascii
\* str::char_indices().nth(n): the byte index of the n-th character
CharIndicesNth(text, n) ==
    IF n < text.chars THEN Some(n * text.width)
    ELSE IF n < text.chars + text.ascii
         THEN Some(text.chars * text.width + (n - text.chars))
         ELSE None
\* text[..idx] followed by push_str("..."), idx on a character boundary
\* within the first run of characters
PrefixWithEllipsis(text, idx) ==
    Text(idx \div text.width, text.width, EllipsisLen)

\* the texts send is called with
Texts ==
    { Text(n, w, 0) :
        n \in {0, 1, MaxTextLen \div 2 + 1, MaxTextLen - EllipsisLen,
                MaxTextLen - EllipsisLen + 1, MaxTextLen, MaxTextLen + 1,
                MaxTextLen + 900},
        w \in {1, 2} }

\* Message { text, media }: media is None or Some(list of photos / videos)
Messages == [text : Texts, media : BOOLEAN]

\* the prefixes of retry-after answers a server may give before its last
\* answer, at most n of them
RECURSIVE RetryLists(_)
RetryLists(n) ==
    IF n = 0 THEN { << >> }
    ELSE LET shorter == RetryLists(n - 1)
         IN shorter \cup
            { Append(r, secs) : r \in { q \in shorter : Len(q) = n - 1 },
                                secs \in RetrySecs }

\* a server answers "retry after" retries[i] to the i-th attempt and then
\* gives its final answer to every later one
Scripts == [retries : RetryLists(MaxRetries), final : {"ok", "err", "retry"}]

\* the server's answer to the k-th attempt
Answer(script, k) ==
    IF k <= Len(script.retries)
    THEN [kind |-> "retry", secs |-> script.retries[k]]
    ELSE [kind |-> script.final, secs |-> IF script.final = "retry" THEN 1 ELSE 0]

\* histories stop growing here; a server that stops retrying never gets
\* that far
MaxHistory == MaxRetries + 2

Bump(n) == IF n < MaxHistory THEN n + 1 ELSE n
Record(history, x) == IF Len(history) < MaxHistory THEN Append(history, x) ELSE history

\* Telegram::send up to the call of send_text / send_media
TelegramSend ==
    /\ spc = "idle"
    /\ \E message \in Messages, script \in Scripts :
          /\ smsg' = Some(message)
          /\ sscript' = Some(script)
          /\ IF StrLen(message.text) > MaxTextLen
             THEN LET nth == CharIndicesNth(message.text, MaxTextLen - EllipsisLen)
                  IN IF nth = None
                     THEN /\ spc' = "panic"
                          /\ sarg' = None
                     ELSE /\ spc' = "attempt"
                          /\ sarg' = Some([text |-> PrefixWithEllipsis(message.text, nth[1]),
                                            media |-> message.media])
             ELSE /\ spc' = "attempt"
                  /\ sarg' = Some([text |-> message.text, media |-> message.media])
    /\ UNCHANGED << sn, sanswers, ssent, sslept, spending, sresult, sdelivered >>
    /\ UNCHANGED nonSink

\* an attempt that sleeps and tries again after any error answer
TelegramAttemptRetryAnyError ==
    /\ spc = "attempt"
    /\ LET answer == Answer(sscript[1], Bump(sn))
       IN /\ sn' = Bump(sn)
          /\ ssent' = ssent \cup {sarg[1]}
          /\ sanswers' = Record(sanswers, answer.kind)
          /\ IF answer.kind = "ok"
             THEN /\ spc' = "done"
                  /\ sresult' = "ok"
                  /\ sdelivered' = sdelivered + 1
                  /\ UNCHANGED spending
             ELSE /\ spc' = "sleep"
                  /\ spending' = answer.secs
                  /\ UNCHANGED << sresult, sdelivered >>
    /\ UNCHANGED << smsg, sarg, sscript, sslept >>
    /\ UNCHANGED nonSink

\* an attempt of a loop that gives up at the second "retry after" answer
TelegramAttemptBounded ==
    /\ spc = "attempt"
    /\ LET answer == Answer(sscript[1], Bump(sn))
       IN /\ sn' = Bump(sn)
          /\ ssent' = ssent \cup {sarg[1]}
          /\ sanswers' = Record(sanswers, answer.kind)
          /\ IF answer.kind = "ok"
             THEN /\ spc' = "done"
                  /\ sresult' = "ok"
                  /\ sdelivered' = sdelivered + 1
                  /\ UNCHANGED spending
             ELSE IF answer.kind = "retry" /\ sn = 0
             THEN /\ spc' = "sleep"
                  /\ spending' = answer.secs
                  /\ UNCHANGED << sresult, sdelivered >>
             ELSE /\ spc' = "done"
                  /\ sresult' = "err"
                  /\ UNCHANGED << spending, sdelivered >>
    /\ UNCHANGED << smsg, sarg, sscript, sslept >>
    /\ UNCHANGED nonSink

\* one turn of the loop of send_text / send_media up to the match arm:
\* the request is sent and answered
TelegramAttempt ==
    /\ spc = "attempt"
    /\ LET answer == Answer(sscript[1], Bump(sn))
       IN /\ sn' = Bump(sn)
          /\ ssent' = ssent \cup {sarg[1]}
          /\ sanswers' = Record(sanswers, answer.kind)
          /\ IF answer.kind = "ok"
             THEN /\ spc' = "done"
                  /\ sresult' = "ok"
                  /\ sdelivered' = sdelivered + 1
                  /\ UNCHANGED spending
             ELSE IF answer.kind = "retry"
             THEN /\ spc' = "sleep"
                  /\ spending' = answer.secs
                  /\ UNCHANGED << sresult, sdelivered >>
             ELSE /\ spc' = "done"
                  /\ sresult' = "err"
                  /\ UNCHANGED << spending, sdelivered >>
    /\ UNCHANGED << smsg, sarg, sscript, sslept >>
    /\ UNCHANGED nonSink

\* a sleep of one second whatever the server said
TelegramSleepFixed ==
    /\ spc = "sleep"
    /\ sslept' = Record(sslept, 1)
    /\ spending' = 0
    /\ spc' = "attempt"
    /\ UNCHANGED << smsg, sarg, sscript, sn, sanswers, ssent, sresult, sdelivered >>
    /\ UNCHANGED nonSink

\* tokio::time::sleep(Duration::from_secs(retry_after)) is over; the loop
\* goes round
TelegramSleep ==
    /\ spc = "sleep"
    /\ sslept' = Record(sslept, spending)
    /\ spending' = 0
    /\ spc' = "attempt"
    /\ UNCHANGED << smsg, sarg, sscript, sn, sanswers, ssent, sresult, sdelivered >>
    /\ UNCHANGED nonSink

InitS ==
    /\ LedgerIdle /\ TransformIdle /\ SinkIdle /\ AuthIdle /\ ParseIdle /\ JsonIdle
    /\ RestIdle

NextS ==
    \/ TelegramSend
    \/ TelegramAttempt
    \/ TelegramSleep

SpecS == InitS /\ [][NextS]_vars

\* the runtime keeps polling the task: a request is answered, a sleep ends
SpecSLive ==
    /\ InitS
    /\ [][NextS]_vars
    /\ WF_vars(TelegramAttempt)
    /\ WF_vars(TelegramSleep)

----------------------------------------------------------------------------
(* The Google OAuth2 access token: GoogleAuth::access_token.               *)

\* the last tick of the clock
MaxTime == 3
\* most access_token() calls in a behaviour
MaxCalls == 2
\* the longest lifetime, in seconds, the server gives a token
MaxLifetime == 2

\* a test that takes a token to be expired only after its instant
CheckedDurationSinceStrict(now, earlier) ==
    IF now > earlier THEN Some(now - earlier) ELSE None

\* Instant::checked_duration_since: Some(now - earlier), None if earlier
\* is later than now
CheckedDurationSince(now, earlier) ==
    IF now >= earlier THEN Some(now - earlier) ELSE None

\* GoogleAuth::new: the first exchange succeeded at instant 0
InitA ==
    /\ LedgerIdle /\ TransformIdle /\ SinkIdle /\ ParseIdle /\ JsonIdle
    /\ RestIdle
    /\ apc = "idle"
    /\ anow = 0
    /\ atoken = 1
    /\ aissued = 1
    /\ \E expires_in \in 0..MaxLifetime :
          /\ aexpires = 0 + expires_in
          /\ aresp = Some([access_token |-> 1, expires_in |-> expires_in])
    /\ acalls = 0
    /\ acalled = 0
    /\ aattempts = 0
    /\ aret = NoToken

\* a second passes
Tick ==
    /\ anow < MaxTime
    /\ anow' = anow + 1
    /\ UNCHANGED << apc, atoken, aexpires, acalls, acalled, aattempts, aissued,
                    aresp, aret >>
    /\ UNCHANGED nonAuth

\* access_token() up to the first await: the expiry test, and the return
\* of the stored token when it has not expired
AccessToken ==
    /\ apc = "idle"
    /\ acalls < MaxCalls
    /\ acalls' = acalls + 1
    /\ acalled' = anow
    /\ aattempts' = 0
    /\ IF CheckedDurationSince(anow, aexpires) # None
       THEN /\ apc' = "exchanging"
            /\ aret' = NoToken
       ELSE /\ apc' = "idle"
            /\ aret' = OkToken(atoken)
    /\ UNCHANGED << anow, atoken, aexpires, aissued, aresp >>
    /\ UNCHANGED nonAuth

\* generate_access_token answered with a token and its lifetime:
\* validate_access_token stores both, access_token returns the new token
ExchangeOk ==
    /\ apc = "exchanging"
    /\ \E expires_in \in 0..MaxLifetime :
          /\ aresp' = Some([access_token |-> aissued + 1, expires_in |-> expires_in])
          /\ atoken' = aissued + 1
          /\ aexpires' = anow + expires_in
    /\ aissued' = aissued + 1
    /\ aattempts' = aattempts + 1
    /\ aret' = OkToken(atoken')
    /\ apc' = "idle"
    /\ UNCHANGED << anow, acalls, acalled >>
    /\ UNCHANGED nonAuth

\* the POST or the reading of its body failed: the ? turns the
\* reqwest::Error into Error::Network and returns it
ExchangeNetworkErr ==
    /\ apc = "exchanging"
    /\ aattempts' = aattempts + 1
    /\ aret' = ErrToken("Network")
    /\ apc' = "idle"
    /\ UNCHANGED << anow, atoken, aexpires, acalls, acalled, aissued, aresp >>
    /\ UNCHANGED nonAuth

\* the body is not a GoogleOAuth2Responce: Error::GoogleAuth(resp)
ExchangeAuthErr ==
    /\ apc = "exchanging"
    /\ aattempts' = aattempts + 1
    /\ aret' = ErrToken("GoogleAuth")
    /\ apc' = "idle"
    /\ UNCHANGED << anow, atoken, aexpires, acalls, acalled, aissued, aresp >>
    /\ UNCHANGED nonAuth

NextA ==
    \/ Tick
    \/ AccessToken
    \/ ExchangeOk
    \/ ExchangeNetworkErr
    \/ ExchangeAuthErr

SpecA == InitA /\ [][NextA]_vars

----------------------------------------------------------------------------
(* Building a task from its configuration: Task::parse.                    *)

\* most actions in the process list of a task
MaxActions == 2

\* ExternalDataResult: Ok(value), Unavailable, Err(error)
ExternalDataResults == {"Ok", "Unavailable", "Err"}

\* the process lists of at most n actions: read-filter actions and others
RECURSIVE ActionLists(_)
ActionLists(n) ==
    IF n = 0 THEN { << >> }
    ELSE LET shorter == ActionLists(n - 1)
         IN shorter \cup
            { Append(l, a) : l \in { q \in shorter : Len(q) = n - 1 },
                             a \in {"read_filter", "other"} }

\* config Task { read_filter_kind, source, actions, sink,
\* entry_to_msg_map_enabled }; the sink is absent, or one with or without
\* message id support
TaskConfigs ==
    [read_filter_kind : {None, Some(KindNewer), Some(KindNotPresent)},
     source : BOOLEAN,
     actions : {None} \cup { Some(l) : l \in ActionLists(MaxActions) },
     sink : {"none", "with_message_id", "without_message_id"},
     entry_to_msg_map_enabled : {None, Some(TRUE), Some(FALSE)}]

\* what the provider answers to read_filter() and to entry_to_msg_map(),
\* and which part of the task, if any, fails to parse
Externals ==
    [read_filter : ExternalDataResults,
     entry_to_msg_map : ExternalDataResults,
     failing : {"none", "action", "source", "sink"}]

\* the Arc<RwLock<ReadFilter>> made at task.rs:52; handle is the Arc
Handle(kind) == [handle |-> 1, kind |-> kind]

\* a clone that makes a ledger of its own for the i-th action
ArcCloneCopies(arc, i) ==
    IF arc = None THEN None ELSE Some([arc[1] EXCEPT !.handle = @ + i])

\* rf.clone() for the i-th action: Option<Arc<..>>::clone, another handle
\* to the same RwLock<ReadFilter>
ArcClone(arc, i) == arc

\* the parsed actions, each given act.parse(rf.clone())
ParsedActions(cfg, arc) ==
    IF cfg.actions = None THEN << >>
    ELSE [i \in 1..Len(cfg.actions[1]) |->
            [kind |-> cfg.actions[1][i], rf |-> ArcClone(arc, i)]]

\* CTask { source: x.parse(rf, external), actions, sink, entry_to_msg_map }
BuiltTask(cfg, arc, actions, map) ==
    [source |-> IF cfg.source THEN Some([rf |-> arc]) ELSE None,
     actions |-> actions,
     sink |-> cfg.sink,
     entry_to_msg_map |-> map]

\* Task::parse is called
ParseCall ==
    /\ ppc = "idle"
    /\ \E cfg \in TaskConfigs, ext \in Externals :
          /\ pcfg' = Some(cfg)
          /\ pext' = Some(ext)
    /\ ppc' = "rf"
    /\ UNCHANGED << prf, pconsulted, pactions, pmap, pret >>
    /\ UNCHANGED nonParse

\* a provisioning that takes an unavailable read filter for an error
ParseReadFilterStrict ==
    /\ ppc = "rf"
    /\ IF pcfg[1].read_filter_kind = None
       THEN /\ prf' = None
            /\ ppc' = "actions"
            /\ UNCHANGED << pconsulted, pret >>
       ELSE /\ pconsulted' = Append(pconsulted, "read_filter")
            /\ IF pext[1].read_filter = "Ok"
               THEN /\ prf' = Some(Handle(pcfg[1].read_filter_kind[1]))
                    /\ ppc' = "actions"
                    /\ UNCHANGED pret
               ELSE /\ pret' = ErrTask("read_filter")
                    /\ ppc' = "done"
                    /\ UNCHANGED prf
    /\ UNCHANGED << pcfg, pext, pactions, pmap >>
    /\ UNCHANGED nonParse

\* let rf = match self.read_filter_kind { .. }
ParseReadFilter ==
    /\ ppc = "rf"
    /\ IF pcfg[1].read_filter_kind = None
       THEN /\ prf' = None
            /\ ppc' = "actions"
            /\ UNCHANGED << pconsulted, pret >>
       ELSE /\ pconsulted' = Append(pconsulted, "read_filter")
            /\ IF pext[1].read_filter = "Ok"
               THEN /\ prf' = Some(Handle(pcfg[1].read_filter_kind[1]))
                    /\ ppc' = "actions"
                    /\ UNCHANGED pret
               ELSE IF pext[1].read_filter = "Unavailable"
               THEN /\ prf' = None
                    /\ ppc' = "actions"
                    /\ UNCHANGED pret
               ELSE /\ pret' = ErrTask("read_filter")
                    /\ ppc' = "done"
                    /\ UNCHANGED prf
    /\ UNCHANGED << pcfg, pext, pactions, pmap >>
    /\ UNCHANGED nonParse

\* let actions = self.actions.try_map(..)?: every action is parsed with
\* rf.clone(); the first one that fails ends parse
ParseActions ==
    /\ ppc = "actions"
    /\ IF pcfg[1].actions # None /\ pcfg[1].actions[1] # << >>
          /\ pext[1].failing = "action"
       THEN /\ pret' = ErrTask("action")
            /\ ppc' = "done"
            /\ UNCHANGED pactions
       ELSE /\ pactions' = ParsedActions(pcfg[1], prf)
            /\ ppc' = "map"
            /\ UNCHANGED pret
    /\ UNCHANGED << pcfg, pext, prf, pconsulted, pmap >>
    /\ UNCHANGED nonParse

\* entry_to_msg_map_enabled, or else whether the sink has message ids
MapEnabled(cfg) ==
    IF cfg.entry_to_msg_map_enabled # None
    THEN cfg.entry_to_msg_map_enabled[1]
    ELSE cfg.sink = "with_message_id"

\* let entry_to_msg_map = if .. { match external.entry_to_msg_map(..) }
ParseMap ==
    /\ ppc = "map"
    /\ IF MapEnabled(pcfg[1])
       THEN /\ pconsulted' = Append(pconsulted, "entry_to_msg_map")
            /\ IF pext[1].entry_to_msg_map = "Ok"
               THEN /\ pmap' = Some("map")
                    /\ ppc' = "build"
                    /\ UNCHANGED pret
               ELSE IF pext[1].entry_to_msg_map = "Unavailable"
               THEN /\ pmap' = None
                    /\ ppc' = "build"
                    /\ UNCHANGED pret
               ELSE /\ pret' = ErrTask("entry_to_msg_map")
                    /\ ppc' = "done"
                    /\ UNCHANGED pmap
       ELSE /\ pmap' = None
            /\ ppc' = "build"
            /\ UNCHANGED << pconsulted, pret >>
    /\ UNCHANGED << pcfg, pext, prf, pactions >>
    /\ UNCHANGED nonParse

\* Ok(CTask { source: self.source.map(|x| x.parse(rf, external))
\* .transpose()?, actions, sink: self.sink.try_map(..)?, entry_to_msg_map })
ParseBuild ==
    /\ ppc = "build"
    /\ pret' =
          IF pcfg[1].source /\ pext[1].failing = "source" THEN ErrTask("source")
          ELSE IF pcfg[1].sink # "none" /\ pext[1].failing = "sink" THEN ErrTask("sink")
          ELSE OkTask(BuiltTask(pcfg[1], prf, pactions, pmap))
    /\ ppc' = "done"
    /\ UNCHANGED << pcfg, pext, prf, pconsulted, pactions, pmap >>
    /\ UNCHANGED nonParse

InitP ==
    /\ LedgerIdle /\ TransformIdle /\ SinkIdle /\ AuthIdle /\ ParseIdle /\ JsonIdle
    /\ RestIdle

NextP ==
    \/ ParseCall
    \/ ParseReadFilter
    \/ ParseActions
    \/ ParseMap
    \/ ParseBuild

SpecP == InitP /\ [][NextP]_vars

----------------------------------------------------------------------------
(* The JSON extraction: Json::parse.                                       *)
(*                                                                         *)
(* A String is a sequence of tokens.  A serde_json::Value is a record of   *)
(* one shape: t is its kind, s the tokens of a string, n a number, a the   *)
(* elements of an array, o the <<key, value>> pairs of an object in the    *)
(* order its map iterates them.                                            *)

\* most items in a document
MaxItems == 2

JNull == [t |-> "null", s |-> << >>, n |-> 0, a |-> << >>, o |-> << >>]
JBool(b) == [t |-> "bool", s |-> << >>, n |-> IF b THEN 1 ELSE 0, a |-> << >>, o |-> << >>]
JNum(n) == [t |-> "number", s |-> << >>, n |-> n, a |-> << >>, o |-> << >>]
JFloat(n) == [t |-> "float", s |-> << >>, n |-> n, a |-> << >>, o |-> << >>]
JStr(s) == [t |-> "string", s |-> s, n |-> 0, a |-> << >>, o |-> << >>]
JArr(a) == [t |-> "array", s |-> << >>, n |-> 0, a |-> a, o |-> << >>]
JObj(o) == [t |-> "object", s |-> << >>, n |-> 0, a |-> << >>, o |-> o]
\* a body that is not a JSON document
NotJson == [t |-> "invalid", s |-> << >>, n |-> 0, a |-> << >>, o |-> << >>]

\* JsonParseInvalid / JsonParseKeyNotFound / JsonParseKeyWrongType /
\* UrlInvalid; found_type is the Debug rendering of the value found
ErrInvalid ==
    [kind |-> "JsonParseInvalid", key |-> "", expected_type |-> "",
     found_type |-> JNull, string |-> << >>]
ErrKeyNotFound(key) ==
    [kind |-> "JsonParseKeyNotFound", key |-> key, expected_type |-> "",
     found_type |-> JNull, string |-> << >>]
ErrKeyWrongType(key, expected_type, found) ==
    [kind |-> "JsonParseKeyWrongType", key |-> key, expected_type |-> expected_type,
     found_type |-> found, string |-> << >>]
ErrUrlInvalid(string) ==
    [kind |-> "UrlInvalid", key |-> "", expected_type |-> "",
     found_type |-> JNull, string |-> string]

\* Result<T>: the value or the error
Good(v) == [ok |-> TRUE, v |-> v, err |-> None]
Bad(err) == [ok |-> FALSE, v |-> JNull, err |-> Some(err)]

\* Value::get(key): the member of an object, None for anything else
Get(val, key) ==
    IF val.t = "object" /\ \E i \in 1..Len(val.o) : val.o[i][1] = key
    THEN Some(val.o[CHOOSE i \in 1..Len(val.o) : val.o[i][1] = key][2])
    ELSE None

\* Value::as_str
AsStr(val) == IF val.t = "string" THEN Some(val.s) ELSE None
\* Value::as_i64, as_u64: an integer number
AsInt(val) == IF val.t = "number" THEN Some(val.n) ELSE None

Digits == << "0", "1", "2", "3", "4", "5", "6", "7", "8", "9" >>
\* i64::to_string
RECURSIVE IntToString(_)
IntToString(n) ==
    IF n < 10 THEN << Digits[n + 1] >>
    ELSE IntToString(n \div 10) \o << Digits[(n % 10) + 1] >>

\* str::trim: no white space at either end
RECURSIVE TrimStart(_)
WhiteSpace == {" ", "\n", "\t"}
TrimStart(s) ==
    IF s # << >> /\ Head(s) \in WhiteSpace THEN TrimStart(Tail(s)) ELSE s
Trim(s) == Reverse(TrimStart(Reverse(TrimStart(s))))

\* format!("{prepend}{original}{append}") when either is set
Affixed(query, original) ==
    IF query.prepend # None \/ query.append # None
    THEN (IF query.prepend # None THEN query.prepend[1] ELSE << >>)
         \o original
         \o (IF query.append # None THEN query.append[1] ELSE << >>)
    ELSE original

\* [String]::join("\n\n")
RECURSIVE Join(_)
Join(strings) ==
    IF strings = << >> THEN << >>
    ELSE IF Len(strings) = 1 THEN Head(strings)
    ELSE Head(strings) \o << "\n\n" >> \o Join(Tail(strings))

\* Url::try_from: a string that starts with a scheme is a URL
UrlTryFrom(string) ==
    IF string # << >> /\ Head(string) = "http://"
    THEN Good(JStr(string))
    ELSE Bad(ErrUrlInvalid(string))

\* try_fold(val, |acc, x| acc.get(x).ok_or_else(|| KeyNotFound(x)))
RECURSIVE TryFoldGet(_, _)
TryFoldGet(val, path) ==
    IF path = << >> THEN Good(val)
    ELSE LET next == Get(val, Head(path))
         IN IF next = None THEN Bad(ErrKeyNotFound(Head(path)))
            ELSE TryFoldGet(next[1], Tail(path))

\* the title: never an error
ItemTitle(cfg, item) ==
    IF cfg.titleq = None THEN None
    ELSE LET found == Get(item, cfg.titleq[1])
         IN IF found = None THEN None
            ELSE IF AsStr(found[1]) = None THEN None
            ELSE Some(Trim(AsStr(found[1])[1]))

\* one text query
TextOf(query, item) ==
    LET text_val == Get(item, query.string)
    IN IF text_val = None THEN Bad(ErrKeyNotFound(query.string))
       ELSE IF AsStr(text_val[1]) = None
       THEN Bad(ErrKeyWrongType(query.string, "string", text_val[1]))
       ELSE Good(Affixed(query, Trim(AsStr(text_val[1])[1])))

\* the text queries in order, up to the first that fails
RECURSIVE TextsOf(_, _)
TextsOf(queries, item) ==
    IF queries = << >> THEN Good(<< >>)
    ELSE LET first == TextOf(Head(queries), item)
         IN IF ~first.ok THEN first
            ELSE LET rest == TextsOf(Tail(queries), item)
                 IN IF ~rest.ok THEN rest
                    ELSE Good(<< first.v >> \o rest.v)

ItemText(cfg, item) ==
    LET texts == TextsOf(cfg.textq, item)
    IN IF texts.ok THEN Good(Join(texts.v)) ELSE texts

ItemId(cfg, item) ==
    LET id_val == Get(item, cfg.idq)
    IN IF id_val = None THEN Bad(ErrKeyNotFound(cfg.idq))
       ELSE IF AsStr(id_val[1]) # None THEN Good(AsStr(id_val[1])[1])
       ELSE IF AsInt(id_val[1]) # None THEN Good(IntToString(AsInt(id_val[1])[1]))
       ELSE Bad(ErrKeyWrongType(cfg.idq, "string/i64/u64", id_val[1]))

\* Ok(None) without a link query
ItemLink(cfg, item) ==
    IF cfg.linkq = None THEN Good(None)
    ELSE LET linkq == cfg.linkq[1]
             link_val == Get(item, linkq.string)
         IN IF link_val = None THEN Bad(ErrKeyNotFound(linkq.string))
            ELSE IF AsStr(link_val[1]) = None
            THEN Bad(ErrKeyWrongType(linkq.string, "string", link_val[1]))
            ELSE LET url == UrlTryFrom(Affixed(linkq, AsStr(link_val[1])[1]))
                 IN IF url.ok THEN Good(Some(url.v.s)) ELSE url

\* the index out of bounds of imgq[0]
Panicked == [ok |-> FALSE, v |-> JNull, err |-> None, panic |-> TRUE]

\* Ok(None) without an image query; imgq[0] of an empty query panics
ItemImg(cfg, item) ==
    IF cfg.imgq = None THEN Good(None) @@ [panic |-> FALSE]
    ELSE LET imgq == cfg.imgq[1]
         IN IF imgq = << >> THEN Panicked
            ELSE LET img_val == TryFoldGet(item, imgq)
                 IN (IF ~img_val.ok THEN img_val
                     ELSE IF AsStr(img_val.v) = None
                     THEN Bad(ErrKeyWrongType(imgq[Len(imgq)], "string", img_val.v))
                     ELSE LET url == UrlTryFrom(AsStr(img_val.v)[1])
                          IN IF url.ok THEN Good(Some(url.v.s)) ELSE url)
                    @@ [panic |-> FALSE]

\* the map closure on one item: the fields in the order title, text, id,
\* link, image; the first error is the closure's result
ItemEntry(cfg, item) ==
    LET title == ItemTitle(cfg, item)
        text == ItemText(cfg, item)
        id == ItemId(cfg, item)
        link == ItemLink(cfg, item)
        img == ItemImg(cfg, item)
    IN IF ~text.ok THEN [status |-> "err", err |-> text.err, entry |-> None]
       ELSE IF ~id.ok THEN [status |-> "err", err |-> id.err, entry |-> None]
       ELSE IF ~link.ok THEN [status |-> "err", err |-> link.err, entry |-> None]
       ELSE IF img.panic THEN [status |-> "panic", err |-> None, entry |-> None]
       ELSE IF ~img.ok THEN [status |-> "err", err |-> img.err, entry |-> None]
       ELSE [status |-> "ok", err |-> None,
             entry |-> Some([id |-> id.v, title |-> title, body |-> text.v,
                             link |-> link.v,
                             media |-> IF img.v = None THEN None
                                       ELSE Some(<< img.v[1] >>)])]

\* TextQuery { string, prepend, append }
TextQuery(string) == [string |-> string, prepend |-> None, append |-> None]

\* an item with every key a query may ask for
FullItem ==
    << << "id", JStr(<< "a" >>) >>,
       << "title", JStr(<< " ", "t", " " >>) >>,
       << "text", JStr(<< "x", " " >>) >>,
       << "link", JStr(<< "http://", "l" >>) >>,
       << "img", JStr(<< "http://", "i" >>) >>,
       << "media", JObj(<< << "img", JStr(<< "http://", "m" >>) >> >>) >> >>

ItemKeys == {"id", "title", "text", "link", "img", "media"}

Without(pairs, key) == SelectSeq(pairs, LAMBDA kv : kv[1] # key)
With(pairs, key, val) ==
    [i \in 1..Len(pairs) |-> IF pairs[i][1] = key THEN << key, val >> ELSE pairs[i]]

\* the items of the documents: the full item, the full item without one
\* key or with a value of another type under one key, an item with a link
\* that is no URL, items with an id only, and an item that is no object
ItemShapes ==
    { JObj(FullItem), JNum(5), JObj(With(FullItem, "link", JStr(<< "l" >>))),
      JObj(With(FullItem, "id", JBool(TRUE))),
      JObj(<< << "id", JNum(1) >> >>), JObj(<< << "id", JStr(<< "x" >>) >> >>) } \cup
    { JObj(Without(FullItem, k)) : k \in ItemKeys \ {"media"} } \cup
    { JObj(With(FullItem, k, JNum(7))) : k \in ItemKeys }

RECURSIVE ItemLists(_)
ItemLists(n) ==
    IF n = 0 THEN { << >> }
    ELSE LET shorter == ItemLists(n - 1)
         IN shorter \cup
            { Append(l, x) : l \in { q \in shorter : Len(q) = n - 1 },
                             x \in ItemShapes }

\* the queries for the fields of an item
FieldQueries ==
    [titleq : {None, Some("title")},
     textq : {<< >>, << TextQuery("text") >>},
     idq : {"id"},
     linkq : {None, Some(TextQuery("link"))},
     imgq : {None, Some(<< >>), Some(<< "img" >>), Some(<< "media", "img" >>)}]

WithItemq(fields, itemq) == fields @@ [itemq |-> itemq]

\* the queries of the plainest configuration
PlainQueries ==
    [titleq |-> None, textq |-> << >>, idq |-> "id", linkq |-> None, imgq |-> None]

TwoItems == << JObj(<< << "id", JNum(1) >> >>), JObj(<< << "id", JStr(<< "x" >>) >> >>) >>
Keyed(items) == [i \in 1..Len(items) |-> << Digits[i], items[i] >>]

\* the calls: documents {"items": [..]} under every field configuration,
\* and documents of other shapes under item paths of length 0, 1 and 2
JsonCalls ==
    { [cfg |-> WithItemq(f, << "items" >>), body |-> JObj(<< << "items", JArr(l) >> >>)] :
        f \in FieldQueries, l \in ItemLists(MaxItems) } \cup
    { [cfg |-> WithItemq(PlainQueries, q), body |-> d] :
        q \in {<< >>, << "items" >>, << "data", "items" >>},
        d \in {NotJson, JNum(3), JArr(TwoItems),
                JObj(<< << "items", JArr(TwoItems) >> >>),
                JObj(<< << "items", JObj(Keyed(TwoItems)) >> >>),
                JObj(<< << "items", JStr(<< "x" >>) >> >>),
                JObj(<< << "data", JObj(<< << "items", JArr(TwoItems) >> >>) >> >>),
                JObj(<< << "data", JObj(<< << "other", JNum(1) >> >>) >> >>),
                JObj(<< << "data", JObj(<< << "items", JNum(4) >> >>) >> >>)} }

\* Json::parse is called
JsonCall ==
    /\ jpc = "idle"
    /\ \E call \in JsonCalls :
          /\ jcfg' = Some(call.cfg)
          /\ jbody' = Some(call.body)
    /\ jpc' = "parse"
    /\ UNCHANGED << jitems, ji, jacc, jret >>
    /\ UNCHANGED nonJson

\* serde_json::from_str, the item path, and the items iterator; the
\* unwrap of itemq.last() panics on an empty item path
JsonItems ==
    /\ jpc = "parse"
    /\ IF jbody[1] = NotJson
       THEN /\ jret' = ErrEntries(ErrInvalid)
            /\ jpc' = "done"
            /\ UNCHANGED jitems
       ELSE LET items == TryFoldGet(jbody[1], jcfg[1].itemq)
            IN IF ~items.ok
               THEN /\ jret' = ErrEntries(items.err[1])
                    /\ jpc' = "done"
                    /\ UNCHANGED jitems
               ELSE IF items.v.t = "array"
               THEN /\ jitems' = items.v.a
                    /\ jpc' = "items"
                    /\ UNCHANGED jret
               ELSE IF items.v.t = "object"
               THEN /\ jitems' = [i \in 1..Len(items.v.o) |-> items.v.o[i][2]]
                    /\ jpc' = "items"
                    /\ UNCHANGED jret
               ELSE IF jcfg[1].itemq = << >>
               THEN /\ jpc' = "panic"
                    /\ UNCHANGED << jitems, jret >>
               ELSE /\ jret' = ErrEntries(ErrKeyWrongType(
                                   jcfg[1].itemq[Len(jcfg[1].itemq)],
                                   "iterator (array, map)", items.v))
                    /\ jpc' = "done"
                    /\ UNCHANGED jitems
    /\ UNCHANGED << jcfg, jbody, ji, jacc >>
    /\ UNCHANGED nonJson

\* collect::<Result<Vec<Entry>>>() pulls the next item through the map
\* closure and stops at the first Err
JsonItem ==
    /\ jpc = "items"
    /\ ji < Len(jitems)
    /\ ji' = ji + 1
    /\ LET one == ItemEntry(jcfg[1], jitems[ji + 1])
       IN IF one.status = "ok"
          THEN /\ jacc' = Append(jacc, one.entry[1])
               /\ UNCHANGED << jpc, jret >>
          ELSE IF one.status = "err"
          THEN /\ jacc' = << >>
               /\ jret' = ErrEntries(one.err[1])
               /\ jpc' = "done"
          ELSE /\ jacc' = << >>
               /\ jpc' = "panic"
               /\ UNCHANGED jret
    /\ UNCHANGED << jcfg, jbody, jitems >>
    /\ UNCHANGED nonJson

\* the iterator is exhausted: Ok(entries)
JsonCollect ==
    /\ jpc = "items"
    /\ ji = Len(jitems)
    /\ jret' = OkEntries(jacc)
    /\ jpc' = "done"
    /\ UNCHANGED << jcfg, jbody, jitems, ji, jacc >>
    /\ UNCHANGED nonJson

InitJ ==
    /\ LedgerIdle /\ TransformIdle /\ SinkIdle /\ AuthIdle /\ ParseIdle /\ JsonIdle
    /\ RestIdle

NextJ ==
    \/ JsonCall
    \/ JsonItems
    \/ JsonItem
    \/ JsonCollect

SpecJ == InitJ /\ [][NextJ]_vars

----------------------------------------------------------------------------
(* The stored read filter: config::ReadFilter, its parse and unparse.      *)

\* most ids in a stored read list
MaxReadList == 3

\* #[serde(tag = "type", rename_all = "snake_case")]
TagNewer == "newer_than_read"
TagNotPresent == "not_present_in_read_list"

\* ReadFilter::NewerThanRead(Newer { last_read_id })
ConfigNewer(last_read_id) ==
    [type |-> TagNewer, last_read_id |-> Some(last_read_id), read_list |-> None]
\* ReadFilter::NotPresentInReadList(NotPresent { read_list })
ConfigNotPresent(read_list) ==
    [type |-> TagNotPresent, last_read_id |-> None, read_list |-> Some(read_list)]

ReadLists == UNION { [1..n -> Ids] : n \in 0..MaxReadList }

\* the stored documents: a type tag, and each of the two fields there or not
RawDocs ==
    [type : {TagNewer, TagNotPresent, "other"},
     last_read_id : {None} \cup { Some(id) : id \in Ids },
     read_list : {None} \cup { Some(l) : l \in ReadLists }]

\* the derived Deserialize: the tag picks the variant, the variant's field
\* must be there, a field of the other variant is ignored; None is the
\* load error
Deserialize(raw) ==
    IF raw.type = TagNewer
    THEN (IF raw.last_read_id = None THEN None
          ELSE Some(ConfigNewer(raw.last_read_id[1])))
    ELSE IF raw.type = TagNotPresent
    THEN (IF raw.read_list = None THEN None
          ELSE Some(ConfigNotPresent(raw.read_list[1])))
    ELSE None

\* Newer::parse
NewerParse(cfg) ==
    [kind |-> KindNewer, last_read_id |-> Some(cfg.last_read_id[1]),
     read_list |-> << >>]

\* NotPresent::parse: Vec into VecDeque
NotPresentParse(cfg) ==
    [kind |-> KindNotPresent, last_read_id |-> None,
     read_list |-> [i \in 1..Len(cfg.read_list[1]) |-> cfg.read_list[1][i]]]

\* ReadFilter::parse, the inner of the ReadFilter it builds
ReadFilterParse(cfg) ==
    IF cfg.type = TagNewer THEN NewerParse(cfg) ELSE NotPresentParse(cfg)

\* Newer::unparse
NewerUnparse(read_filter) ==
    IF read_filter.last_read_id = None THEN None
    ELSE Some(ConfigNewer(read_filter.last_read_id[1]))

\* the read list written newest first
NotPresentUnparseReversed(read_filter) ==
    IF read_filter.read_list = << >> THEN None
    ELSE Some(ConfigNotPresent(Reverse(read_filter.read_list)))

\* NotPresent::unparse: nothing for an empty read list
NotPresentUnparse(read_filter) ==
    IF read_filter.read_list = << >> THEN None
    ELSE Some(ConfigNotPresent(
             [i \in 1..Len(read_filter.read_list) |-> read_filter.read_list[i]]))

\* ReadFilter::unparse
ReadFilterUnparse(read_filter) ==
    IF read_filter.kind = KindNewer THEN NewerUnparse(read_filter)
    ELSE NotPresentUnparse(read_filter)

\* a stored document is deserialized
ConfigLoad ==
    /\ cpc = "idle"
    /\ \E raw \in RawDocs :
          /\ craw' = Some(raw)
          /\ ccfg' = Deserialize(raw)
          /\ cpc' = IF Deserialize(raw) = None THEN "error" ELSE "loaded"
    /\ UNCHANGED << cfilter, csaved >>
    /\ UNCHANGED nonConfig

\* ReadFilter::parse(self, name)
ConfigParse ==
    /\ cpc = "loaded"
    /\ cfilter' = Some(ReadFilterParse(ccfg[1]))
    /\ cpc' = "parsed"
    /\ UNCHANGED << craw, ccfg, csaved >>
    /\ UNCHANGED nonConfig

\* ReadFilter::unparse(&inner)
ConfigUnparse ==
    /\ cpc = "parsed"
    /\ csaved' = ReadFilterUnparse(cfilter[1])
    /\ cpc' = "unparsed"
    /\ UNCHANGED << craw, ccfg, cfilter >>
    /\ UNCHANGED nonConfig

InitC ==
    /\ LedgerIdle /\ TransformIdle /\ SinkIdle /\ AuthIdle /\ ParseIdle /\ JsonIdle
    /\ RestIdle

NextC ==
    \/ ConfigLoad
    \/ ConfigParse
    \/ ConfigUnparse

SpecC == InitC /\ [][NextC]_vars

----------------------------------------------------------------------------
(* The Email source: fetch, mark_as_read, set_read_only and the IMAP       *)
(* login of the authenticate! macro.                                       *)

\* most mails in the INBOX
MaxMail == 2
\* most fetch and mark_as_read calls
MaxOps == 3

Uids == 1..MaxMail
ViewModes == {"MarkAsRead", "Delete", "ReadOnly"}
AuthKinds == {"GmailOAuth2", "Password"}

\* what auth.as_imap_oauth2(login) and auth.get_new_access_token() give:
\* the token, or a GoogleOAuth2Error
TokenResults == {"ok", "GoogleOAuth2"}

\* the operation in progress returns ret
EmailReturn(ret) ==
    /\ mret' = [op |-> mop, id |-> mid, ret |-> ret]
    /\ mpc' = "idle"
    /\ mop' = "none"
    /\ mid' = 0

\* a set_read_only that leaves the view mode as it was
EmailSetReadOnlyForgets ==
    /\ mpc = "idle"
    /\ mview # "none"
    /\ mro' = TRUE
    /\ UNCHANGED << mpc, mview, mauth, mbox, mop, mid, mret, mlog, mcalls >>
    /\ UNCHANGED nonMail

\* set_read_only: self.view_mode = ViewMode::ReadOnly
EmailSetReadOnly ==
    /\ mpc = "idle"
    /\ mview # "none"
    /\ mview' = "ReadOnly"
    /\ mro' = TRUE
    /\ UNCHANGED << mpc, mauth, mbox, mop, mid, mret, mlog, mcalls >>
    /\ UNCHANGED nonMail

\* fetch is called
EmailFetch ==
    /\ mpc = "idle"
    /\ mview # "none"
    /\ mcalls < MaxOps
    /\ mcalls' = mcalls + 1
    /\ mop' = "fetch"
    /\ mpc' = "connect"
    /\ mlog' = << >>
    /\ UNCHANGED << mview, mauth, mbox, mid, mret, mro >>
    /\ UNCHANGED nonMail

\* mark_as_read(id) is called: Ok(()) at once in ReadOnly
EmailMarkAsRead ==
    /\ mpc = "idle"
    /\ mview # "none"
    /\ mcalls < MaxOps
    /\ mcalls' = mcalls + 1
    /\ mlog' = << >>
    /\ \E id \in Uids :
          IF mview = "ReadOnly"
          THEN /\ mret' = [op |-> "mark_as_read", id |-> id, ret |-> "ok"]
               /\ UNCHANGED << mpc, mop, mid >>
          ELSE /\ mop' = "mark_as_read"
               /\ mid' = id
               /\ mpc' = "connect"
               /\ UNCHANGED mret
    /\ UNCHANGED << mview, mauth, mbox, mro >>
    /\ UNCHANGED nonMail

\* ClientBuilder::new(..).connect()
EmailConnect ==
    /\ mpc = "connect"
    /\ \E connected \in BOOLEAN :
          IF connected
          THEN /\ mpc' = "authenticate"
               /\ UNCHANGED << mop, mid, mret >>
          ELSE EmailReturn("ConnectionFailed")
    /\ UNCHANGED << mview, mauth, mbox, mro, mlog, mcalls >>
    /\ UNCHANGED nonMail

\* authenticate!: the first XOAUTH2 authenticate, or the password login
EmailAuthenticate ==
    /\ mpc = "authenticate"
    /\ IF mauth = "GmailOAuth2"
       THEN \E token \in TokenResults, accepted \in BOOLEAN :
               IF token # "ok"
               THEN /\ mlog' = Append(mlog, "token_failed")
                    /\ EmailReturn("GoogleOAuth2")
               ELSE IF accepted
               THEN /\ mlog' = Append(mlog, "accepted")
                    /\ mpc' = "session"
                    /\ UNCHANGED << mop, mid, mret >>
               ELSE /\ mlog' = Append(mlog, "denied")
                    /\ mpc' = "refresh"
                    /\ UNCHANGED << mop, mid, mret >>
       ELSE \E accepted \in BOOLEAN :
               IF accepted
               THEN /\ mlog' = Append(mlog, "accepted")
                    /\ mpc' = "session"
                    /\ UNCHANGED << mop, mid, mret >>
               ELSE /\ mlog' = Append(mlog, "denied")
                    /\ EmailReturn("Auth")
    /\ UNCHANGED << mview, mauth, mbox, mro, mcalls >>
    /\ UNCHANGED nonMail

\* auth.get_new_access_token().await.map_err(ImapError::GoogleOAuth2)?
EmailRefresh ==
    /\ mpc = "refresh"
    /\ \E token \in TokenResults :
          IF token = "ok"
          THEN /\ mlog' = Append(mlog, "refreshed")
               /\ mpc' = "authenticate2"
               /\ UNCHANGED << mop, mid, mret >>
          ELSE /\ mlog' = Append(mlog, "refresh_failed")
               /\ EmailReturn("GoogleOAuth2")
    /\ UNCHANGED << mview, mauth, mbox, mro, mcalls >>
    /\ UNCHANGED nonMail

\* a second authenticate that, denied, refreshes the token once more
EmailAuthenticateAgainLoops ==
    /\ mpc = "authenticate2"
    /\ \E token \in TokenResults, accepted \in BOOLEAN :
          IF token # "ok"
          THEN /\ mlog' = Append(mlog, "token_failed")
               /\ EmailReturn("GoogleOAuth2")
          ELSE IF accepted
          THEN /\ mlog' = Append(mlog, "accepted")
               /\ mpc' = "session"
               /\ UNCHANGED << mop, mid, mret >>
          ELSE /\ mlog' = Append(mlog, "denied")
               /\ mpc' = "refresh"
               /\ UNCHANGED << mop, mid, mret >>
    /\ UNCHANGED << mview, mauth, mbox, mro, mcalls >>
    /\ UNCHANGED nonMail

\* client.authenticate("XOAUTH2", ..).map_err(|(e, _)| ImapError::Auth(e))?
EmailAuthenticateAgain ==
    /\ mpc = "authenticate2"
    /\ \E token \in TokenResults, accepted \in BOOLEAN :
          IF token # "ok"
          THEN /\ mlog' = Append(mlog, "token_failed")
               /\ EmailReturn("GoogleOAuth2")
          ELSE IF accepted
          THEN /\ mlog' = Append(mlog, "accepted")
               /\ mpc' = "session"
               /\ UNCHANGED << mop, mid, mret >>
          ELSE /\ mlog' = Append(mlog, "denied")
               /\ EmailReturn("Auth")
    /\ UNCHANGED << mview, mauth, mbox, mro, mcalls >>
    /\ UNCHANGED nonMail

\* fetch_impl after the login: examine, uid_search, uid_fetch, logout and
\* the parse of the mails; nothing of it writes to the INBOX
EmailFetchSession ==
    /\ mpc = "session"
    /\ mop = "fetch"
    /\ \E ret \in {"ok", "Other", "Parse"} : EmailReturn(ret)
    /\ UNCHANGED << mview, mauth, mbox, mro, mlog, mcalls >>
    /\ UNCHANGED nonMail

\* session.select("INBOX")?
EmailSelect ==
    /\ mpc = "session"
    /\ mop = "mark_as_read"
    /\ \E selected \in BOOLEAN :
          IF selected
          THEN /\ mpc' = "store"
               /\ UNCHANGED << mop, mid, mret >>
          ELSE EmailReturn("Other")
    /\ UNCHANGED << mview, mauth, mbox, mro, mlog, mcalls >>
    /\ UNCHANGED nonMail

\* the flag of a mail that is there is set
Flagged(box, id, flag) ==
    IF box[id].there THEN [box EXCEPT ![id][flag] = TRUE] ELSE box

\* match self.view_mode { .. uid_store(id, "+FLAGS.SILENT (..)")? .. }
EmailStore ==
    /\ mpc = "store"
    /\ \E stored \in BOOLEAN :
          IF ~stored
          THEN /\ EmailReturn("Other")
               /\ UNCHANGED mbox
          ELSE IF mview = "MarkAsRead"
          THEN /\ mbox' = Flagged(mbox, mid, "seen")
               /\ mpc' = "logout"
               /\ UNCHANGED << mop, mid, mret >>
          ELSE IF mview = "Delete"
          THEN /\ mbox' = Flagged(mbox, mid, "deleted")
               /\ mpc' = "expunge"
               /\ UNCHANGED << mop, mid, mret >>
          ELSE /\ mpc' = "panic"
               /\ UNCHANGED << mbox, mop, mid, mret >>
    /\ UNCHANGED << mview, mauth, mro, mlog, mcalls >>
    /\ UNCHANGED nonMail

\* session.uid_expunge(id)?
EmailExpunge ==
    /\ mpc = "expunge"
    /\ \E expunged \in BOOLEAN :
          IF expunged
          THEN /\ mbox' = IF mbox[mid].there /\ mbox[mid].deleted
                          THEN [mbox EXCEPT ![mid].there = FALSE]
                          ELSE mbox
               /\ mpc' = "logout"
               /\ UNCHANGED << mop, mid, mret >>
          ELSE /\ EmailReturn("Other")
               /\ UNCHANGED mbox
    /\ UNCHANGED << mview, mauth, mro, mlog, mcalls >>
    /\ UNCHANGED nonMail

\* session.logout()?; Ok(())
EmailLogout ==
    /\ mpc = "logout"
    /\ \E ret \in {"ok", "Other"} : EmailReturn(ret)
    /\ UNCHANGED << mview, mauth, mbox, mro, mlog, mcalls >>
    /\ UNCHANGED nonMail

\* Email::new_gmail, Email::new_generic: a source of any view mode, with an
\* INBOX of unseen mails
InitM ==
    /\ LedgerIdle /\ TransformIdle /\ SinkIdle /\ AuthIdle /\ ParseIdle /\ JsonIdle
    /\ ConfigIdle /\ TwitterIdle /\ TaskIdle
    /\ mpc = "idle"
    /\ mview \in ViewModes
    /\ mauth \in AuthKinds
    /\ mbox = [u \in Uids |-> [there |-> TRUE, seen |-> FALSE, deleted |-> FALSE]]
    /\ mop = "none"
    /\ mid = 0
    /\ mret = NoReturn
    /\ mro = FALSE
    /\ mlog = << >>
    /\ mcalls = 0

NextM ==
    \/ EmailSetReadOnly
    \/ EmailFetch
    \/ EmailMarkAsRead
    \/ EmailConnect
    \/ EmailAuthenticate
    \/ EmailRefresh
    \/ EmailAuthenticateAgain
    \/ EmailFetchSession
    \/ EmailSelect
    \/ EmailStore
    \/ EmailExpunge
    \/ EmailLogout

SpecM == InitM /\ [][NextM]_vars

----------------------------------------------------------------------------
(* The Twitter reader: TwitterNewsReader::start and send_news.             *)

\* most tweets on the timeline
MaxTweets == 3
\* most start calls
MaxStarts == 3

TweetIds == 1..MaxTweets

\* the value of a decimal digit, 10 for any other token
DigitValue(c) ==
    IF \E d \in 1..10 : Digits[d] = c
    THEN (CHOOSE d \in 1..10 : Digits[d] = c) - 1
    ELSE 10

\* str::parse::<u64>().ok(): Some(n) for a non-empty string of digits
RECURSIVE ParseDigits(_, _)
ParseDigits(s, acc) ==
    IF s = << >> THEN Some(acc)
    ELSE IF DigitValue(Head(s)) = 10 THEN None
    ELSE ParseDigits(Tail(s), (10 * acc) + DigitValue(Head(s)))

ParseU64(s) == IF s = << >> THEN None ELSE ParseDigits(s, 0)

\* get_last_read_guid(name).and_then(|x| x.trim().parse::<u64>().ok())
LastReadGuid(saved) ==
    IF saved = None THEN None ELSE ParseU64(Trim(saved[1]))

\* user_timeline(..).older(last_read_guid): the tweets newer than the
\* given id, newest first
RECURSIVE Timeline(_, _)
Timeline(n, last_read_guid) ==
    IF n = 0 \/ (last_read_guid # None /\ n <= last_read_guid[1]) THEN << >>
    ELSE << n >> \o Timeline(n - 1, last_read_guid)

\* a tweet is posted
TweetPosted ==
    /\ Len(wtweets) < MaxTweets
    /\ \E has_filters \in BOOLEAN : wtweets' = Append(wtweets, has_filters)
    /\ UNCHANGED << wpc, wfilters, wsaved, wlast, wqueue, wsent, wskipped,
                    wdelivered, wbefore, wret, wstarts >>
    /\ UNCHANGED nonTwitter

\* start: the stored guid is read and send_news fetches the timeline
TwitterStart ==
    /\ wpc = "idle"
    /\ wstarts < MaxStarts
    /\ wstarts' = wstarts + 1
    /\ wbefore' = wsaved
    /\ wlast' = LastReadGuid(wsaved)
    /\ wsent' = {}
    /\ wskipped' = {}
    /\ \E fetched \in BOOLEAN :
          IF fetched
          THEN /\ wqueue' = Reverse(Timeline(Len(wtweets), LastReadGuid(wsaved)))
               /\ wpc' = "loop"
               /\ UNCHANGED wret
          ELSE /\ wret' = "Twitter"
               /\ UNCHANGED << wpc, wqueue >>
    /\ UNCHANGED << wtweets, wfilters, wsaved, wdelivered >>
    /\ UNCHANGED nonTwitter

\* a loop body that takes a skipped tweet for read
TwitterTweetMarksSkipped ==
    /\ wpc = "loop"
    /\ wqueue # << >>
    /\ LET tweet == Head(wqueue)
       IN IF wfilters /\ ~wtweets[tweet]
          THEN /\ wskipped' = wskipped \cup {tweet}
               /\ wqueue' = Tail(wqueue)
               /\ wlast' = Some(tweet)
               /\ UNCHANGED << wpc, wsent, wdelivered, wret >>
          ELSE \E sent \in BOOLEAN :
                  IF sent
                  THEN /\ wdelivered' = [wdelivered EXCEPT ![tweet] = @ + 1]
                       /\ wsent' = wsent \cup {tweet}
                       /\ wlast' = Some(tweet)
                       /\ wqueue' = Tail(wqueue)
                       /\ UNCHANGED << wpc, wskipped, wret >>
                  ELSE /\ wret' = "Telegram"
                       /\ wpc' = "idle"
                       /\ wqueue' = << >>
                       /\ UNCHANGED << wlast, wsent, wskipped, wdelivered >>
    /\ UNCHANGED << wtweets, wfilters, wsaved, wbefore, wstarts >>
    /\ UNCHANGED nonTwitter

\* a loop body that stores the last read guid when a send fails
TwitterTweetSavesOnError ==
    /\ wpc = "loop"
    /\ wqueue # << >>
    /\ LET tweet == Head(wqueue)
       IN IF wfilters /\ ~wtweets[tweet]
          THEN /\ wskipped' = wskipped \cup {tweet}
               /\ wqueue' = Tail(wqueue)
               /\ UNCHANGED << wpc, wlast, wsent, wdelivered, wret, wsaved >>
          ELSE \E sent \in BOOLEAN :
                  IF sent
                  THEN /\ wdelivered' = [wdelivered EXCEPT ![tweet] = @ + 1]
                       /\ wsent' = wsent \cup {tweet}
                       /\ wlast' = Some(tweet)
                       /\ wqueue' = Tail(wqueue)
                       /\ UNCHANGED << wpc, wskipped, wret, wsaved >>
                  ELSE /\ wret' = "Telegram"
                       /\ wpc' = "idle"
                       /\ wqueue' = << >>
                       /\ wsaved' = IF wlast = None THEN wsaved
                                    ELSE Some(IntToString(wlast[1]))
                       /\ UNCHANGED << wlast, wsent, wskipped, wdelivered >>
    /\ UNCHANGED << wtweets, wfilters, wbefore, wstarts >>
    /\ UNCHANGED nonTwitter

\* for tweet in tweets.iter().rev(): a tweet without the filters is
\* skipped; the others are sent, and a failed send ends start with the
\* error
TwitterTweet ==
    /\ wpc = "loop"
    /\ wqueue # << >>
    /\ LET tweet == Head(wqueue)
       IN IF wfilters /\ ~wtweets[tweet]
          THEN /\ wskipped' = wskipped \cup {tweet}
               /\ wqueue' = Tail(wqueue)
               /\ UNCHANGED << wpc, wlast, wsent, wdelivered, wret >>
          ELSE \E sent \in BOOLEAN :
                  IF sent
                  THEN /\ wdelivered' = [wdelivered EXCEPT ![tweet] = @ + 1]
                       /\ wsent' = wsent \cup {tweet}
                       /\ wlast' = Some(tweet)
                       /\ wqueue' = Tail(wqueue)
                       /\ UNCHANGED << wpc, wskipped, wret >>
                  ELSE /\ wret' = "Telegram"
                       /\ wpc' = "idle"
                       /\ wqueue' = << >>
                       /\ UNCHANGED << wlast, wsent, wskipped, wdelivered >>
    /\ UNCHANGED << wtweets, wfilters, wsaved, wbefore, wstarts >>
    /\ UNCHANGED nonTwitter

\* send_news returns Ok(last_read_guid); start stores it if it is Some
TwitterSave ==
    /\ wpc = "loop"
    /\ wqueue = << >>
    /\ wpc' = "idle"
    /\ IF wlast = None
       THEN /\ wret' = "ok"
            /\ UNCHANGED wsaved
       ELSE \E saved \in BOOLEAN :
               IF saved
               THEN /\ wsaved' = Some(IntToString(wlast[1]))
                    /\ wret' = "ok"
               ELSE /\ wret' = "Save"
                    /\ UNCHANGED wsaved
    /\ UNCHANGED << wtweets, wfilters, wlast, wqueue, wsent, wskipped,
                    wdelivered, wbefore, wstarts >>
    /\ UNCHANGED nonTwitter

\* TwitterNewsReader::new, with filters or without; nothing stored yet, a
\* stored string that is no number, or a stored 0 between white space
InitW ==
    /\ LedgerIdle /\ TransformIdle /\ SinkIdle /\ AuthIdle /\ ParseIdle /\ JsonIdle
    /\ ConfigIdle /\ MailIdle /\ TaskIdle
    /\ wpc = "idle"
    /\ wtweets = << >>
    /\ wfilters \in BOOLEAN
    /\ wsaved \in {None, Some(<< "x" >>), Some(<< " ", "0", "\n" >>)}
    /\ wlast = None
    /\ wqueue = << >>
    /\ wsent = {}
    /\ wskipped = {}
    /\ wdelivered = [id \in TweetIds |-> 0]
    /\ wbefore = None
    /\ wret = "none"
    /\ wstarts = 0

NextW ==
    \/ TweetPosted
    \/ TwitterStart
    \/ TwitterTweet
    \/ TwitterSave

SpecW == InitW /\ [][NextW]_vars

(***************************************************************************)
(* The task Task::parse built: the source and the read-filter actions of   *)
(* its chain reach the ledger through the handles they were parsed with.   *)
(***************************************************************************)

\* number of mark_as_read calls made on one built task
MaxMarks == 2

\* the ReadFilter the provider answers read_filter() with: a new one of the
\* expected kind or one that was saved with an entry marked
StoredLedgers(kind) ==
    IF kind = KindNewer
    THEN {NewerNew, [NewerNew EXCEPT !.last_read_id = Some(1)]}
    ELSE {NotPresentNew, [NotPresentNew EXCEPT !.read_list = << 1 >>]}

\* the newest-first listings a source fetches: ids hi down to lo
HolderListings ==
    UNION { { [k \in 1..(hi - lo + 1) |-> hi - k + 1] : lo \in 1..hi } :
              hi \in Ids }

\* Task::parse from its first line to its last: the first `?` or
\* `return Err` that fires ends it, else Ok(CTask { .. })
TaskParse(cfg, ext) ==
    LET arc == IF cfg.read_filter_kind # None /\ ext.read_filter = "Ok"
               THEN Some(Handle(cfg.read_filter_kind[1]))
               ELSE None
        map == IF MapEnabled(cfg) /\ ext.entry_to_msg_map = "Ok"
               THEN Some("map")
               ELSE None
    IN IF cfg.read_filter_kind # None /\ ext.read_filter = "Err"
       THEN ErrTask("read_filter")
       ELSE IF cfg.actions # None /\ cfg.actions[1] # << >>
               /\ ext.failing = "action"
       THEN ErrTask("action")
       ELSE IF MapEnabled(cfg) /\ ext.entry_to_msg_map = "Err"
       THEN ErrTask("entry_to_msg_map")
       ELSE IF cfg.source /\ ext.failing = "source" THEN ErrTask("source")
       ELSE IF cfg.sink # "none" /\ ext.failing = "sink" THEN ErrTask("sink")
       ELSE OkTask(BuiltTask(cfg, arc, ParsedActions(cfg, arc), map))

\* the parts of a built task that hold a handle to the ReadFilter: 0 is the
\* source, i the i-th action when it is a read-filter action
Holders(task) ==
    (IF task.source # None /\ task.source[1].rf # None THEN {0} ELSE {}) \cup
    { i \in 1..Len(task.actions) :
        task.actions[i].kind = "read_filter" /\ task.actions[i].rf # None }

\* the Arc a holder was parsed with
HandleOf(task, h) ==
    IF h = 0 THEN task.source[1].rf[1].handle ELSE task.actions[h].rf[1].handle

\* Task::parse is called and returns; RwLock::new(rf) holds what the
\* provider answered
HolderTaskParse ==
    /\ hpc = "idle"
    /\ \E cfg \in TaskConfigs, ext \in Externals :
          LET res == TaskParse(cfg, ext)
          IN IF ~res.ok
             THEN /\ hpc' = "failed"
                  /\ UNCHANGED << htask, hheap, hone >>
             ELSE /\ hpc' = "built"
                  /\ htask' = Some([source |-> res.task[1].source,
                                     actions |-> res.task[1].actions])
                  /\ IF cfg.read_filter_kind # None /\ ext.read_filter = "Ok"
                     THEN \E stored \in StoredLedgers(cfg.read_filter_kind[1]) :
                             /\ hheap' = [a \in 1..(MaxActions + 1) |-> stored]
                             /\ hone' = Some(stored)
                     ELSE UNCHANGED << hheap, hone >>
    /\ UNCHANGED << hmarks, hmark, hremove >>
    /\ UNCHANGED nonTask

\* rf.write().await.mark_as_read(id) through the handle of one holder
HolderMarkAsRead(h, id) ==
    /\ hpc = "built"
    /\ h \in Holders(htask[1])
    /\ hmarks < MaxMarks
    /\ hheap' = [hheap EXCEPT ![HandleOf(htask[1], h)] = MarkAsReadIn(@, id)]
    /\ hone' = Some(MarkAsReadIn(hone[1], id))
    /\ hmarks' = hmarks + 1
    /\ hmark' = Some([holder |-> h, id |-> id])
    /\ hremove' = None
    /\ UNCHANGED << hpc, htask >>
    /\ UNCHANGED nonTask

\* rf.read().await.remove_read_from(&mut entries) through the handle of
\* one holder
HolderRemoveRead(h, list) ==
    /\ hpc = "built"
    /\ h \in Holders(htask[1])
    /\ hremove' = Some([holder |-> h, list |-> list,
                        out |-> RemoveReadFrom(hheap[HandleOf(htask[1], h)], list)])
    /\ UNCHANGED << hpc, htask, hheap, hone, hmarks, hmark >>
    /\ UNCHANGED nonTask

InitH ==
    /\ LedgerIdle /\ TransformIdle /\ SinkIdle /\ AuthIdle /\ ParseIdle /\ JsonIdle
    /\ ConfigIdle /\ MailIdle /\ TwitterIdle
    /\ hpc = "idle"
    /\ htask = None
    /\ hheap = << >>
    /\ hone = None
    /\ hmarks = 0
    /\ hmark = None
    /\ hremove = None

NextH ==
    \/ HolderTaskParse
    \/ \E h \in 0..MaxActions, id \in Ids : HolderMarkAsRead(h, id)
    \/ \E h \in 0..MaxActions, list \in HolderListings : HolderRemoveRead(h, list)

SpecH == InitH /\ [][NextH]_vars

Next ==
    \/ Publish
    \/ \E p \in Runs : Fetch(p)
    \/ \E p \in Runs : AcquireRead(p)
    \/ \E p \in Runs : RemoveRead(p)
    \/ \E p \in Runs : SendOk(p)
    \/ \E p \in Runs : SendErr(p)
    \/ \E p \in Runs : AcquireWrite(p)
    \/ \E p \in Runs : MarkAsRead(p)

Spec == Init /\ [][Next]_vars

----------------------------------------------------------------------------
(* Properties of the shared read filter.                                   *)

\* a remove_read step of run p: it leaves "reading"
FilterStep(p) == pc[p] = "reading" /\ pc'[p] # "reading"
\* a mark_as_read step of run p: it leaves "writing"
MarkStep(p) == pc[p] = "writing" /\ pc'[p] # "writing"

C2_ReaderWriterExclusive ==
    \A p \in Runs :
        (pc[p] = "writing" \/ p \in writers) =>
            /\ readers = {}
            /\ writers = {p}
            /\ \A q \in Runs \ {p} : pc[q] \notin {"reading", "writing"}

\* a writer is inside the ledger while a reader waits for the lock
C2_Witness ==
    \E p, q \in Runs : pc[p] = "writing" /\ pc[q] = "want_read"

\* several remove_read callers hold the read lock at the same time
C2_SharedReaders == Cardinality(readers) >= 2

\* C3: remove_read never changes the ledger, and a second remove_read over
\* the survivors of the first, with no mark_as_read in between, keeps all
\* of them and yields the survivors of the first again from the same batch.
C3_DedupIdempotent ==
    [][\A p \in Runs : FilterStep(p) =>
          /\ rf' = rf
          /\ TransformReadFilter(rf', survivors'[p]) = survivors'[p]
          /\ TransformReadFilter(rf', batch[p]) = survivors'[p]]_vars

\* a remove_read has just removed some entries and kept others
C3_Witness ==
    \E p \in Runs :
        /\ filtered = p
        /\ survivors[p] # << >>
        /\ Len(survivors[p]) < Len(batch[p])

\* C4: NewerThanLastRead, watermark id present in the batch: remove_read
\* removes id and every id not newer than it and keeps, in order, every
\* id newer than it.
C4_MonotonicWatermark ==
    [][\A p \in Runs :
          (/\ FilterStep(p)
           /\ rf.kind = KindNewer
           /\ rf.last_read_id # None
           /\ rf.last_read_id[1] \in Range(batch[p]))
          => LET IsNewer(x) == x > rf.last_read_id[1]
             IN survivors'[p] = SelectSeq(batch[p], IsNewer)]_vars

\* a remove_read has just removed the watermark and an older id and kept
\* a newer id
C4_Witness ==
    \E p \in Runs :
        /\ filtered = p
        /\ rf.kind = KindNewer
        /\ rf.last_read_id # None
        /\ rf.last_read_id[1] \in Range(batch[p])
        /\ survivors[p] # << >>
        /\ Len(batch[p]) - Len(survivors[p]) >= 2

NoDuplicates(list) ==
    \A i, j \in 1..Len(list) : list[i] = list[j] => i = j

\* C5: NotPresentInReadList: the read list never holds an id twice, it
\* holds exactly the ids marked so far, and a mark_as_read of an id that
\* was marked before leaves the ledger as it was.
C5_SetMembershipStable ==
    /\ [](rf.kind = KindNotPresent =>
            NoDuplicates(rf.read_list) /\ Range(rf.read_list) = marked)
    /\ [][\A p \in Runs :
            (MarkStep(p) /\ rf.kind = KindNotPresent /\ Head(queue[p]) \in marked)
            => rf' = rf]_vars

\* an id that is already in the read list is about to be marked again
C5_Witness ==
    \E p \in Runs :
        /\ rf.kind = KindNotPresent
        /\ pc[p] = "writing"
        /\ Head(queue[p]) \in Range(rf.read_list)

\* C6: the result of remove_read is the subsequence of the batch made of
\* the entries the strategy does not classify as read: nothing added,
\* duplicated or reordered.
C6_RemovesExactlyRead ==
    [][\A p \in Runs : FilterStep(p) =>
          LET NotRead(x) == ~IsRead(rf, batch[p], x)
          IN survivors'[p] = SelectSeq(batch[p], NotRead)]_vars

\* a remove_read has just kept at least two entries and removed at least one
C6_Witness ==
    \E p \in Runs :
        /\ filtered = p
        /\ Len(survivors[p]) >= 2
        /\ Len(batch[p]) > Len(survivors[p])

\* C7: NewerThanLastRead.mark_as_read(id) sets last_read_id to id whatever
\* it was before, and a remove_read over a batch holding the watermark
\* keeps every newer id, marked or not.
C7_WatermarkUnconditional ==
    /\ [][\A p \in Runs :
            (MarkStep(p) /\ rf.kind = KindNewer)
            => rf'.last_read_id = Some(Head(queue[p]))]_vars
    /\ [][\A p \in Runs :
            (/\ FilterStep(p)
             /\ rf.kind = KindNewer
             /\ rf.last_read_id # None
             /\ rf.last_read_id[1] \in Range(batch[p]))
            => \A b \in Range(batch[p]) :
                  b > rf.last_read_id[1] => b \in Range(survivors'[p])]_vars

\* the watermark went back behind a marked entry and a remove_read has
\* just let that entry through
C7_Witness ==
    \E p \in Runs :
        /\ filtered = p
        /\ rf.kind = KindNewer
        /\ rf.last_read_id # None
        /\ rf.last_read_id[1] \in Range(batch[p])
        /\ \E b \in marked :
              /\ rf.last_read_id[1] < b
              /\ b \in Range(survivors[p])

----------------------------------------------------------------------------
(* Properties of the per-entry transform.                                  *)

\* out is raw with, for every field, the old entry's value given to the
\* first element of raw that has None there, and to no other
FirstClaimsIt(old, raw, out) ==
    /\ Len(out) = Len(raw)
    /\ \A f \in Fields : \A i \in 1..Len(raw) :
          out[i][f] = IF raw[i][f] # None THEN raw[i][f]
                      ELSE IF \A j \in 1..(i - 1) : raw[j][f] # None THEN old[f]
                      ELSE None
    /\ \A f \in Fields :
          old[f] # None =>
             Cardinality({ i \in 1..Len(raw) : raw[i][f] = None /\ out[i][f] = old[f] }) <= 1

\* C8: an input entry expanded into N >= 2 entries: for every field the
\* input's value goes, as fallback, to the first output the transform left
\* None there and to no later one.
C8_MergeFallbackClaimOnce ==
    /\ \A k \in 1..Len(tgroups) :
          (traw[k].ok /\ Len(traw[k].v) >= 2)
          => FirstClaimsIt(tentries[k], traw[k].v, tgroups[k])
    /\ (tvariant = "PerEntry" /\ tpc = "done" /\ tret.ok /\ Len(tentries) = 1 /\ Len(traw[1].v) >= 2)
          => FirstClaimsIt(tentries[1], traw[1].v, tret.entries)

\* input link = L, two outputs both omitting link: the first gets L, the
\* second None
C8_Witness ==
    /\ tvariant = "PerEntry"
    /\ tpc = "done"
    /\ tret.ok
    /\ Len(tentries) = 1
    /\ tentries[1]["link"] # None
    /\ Len(traw[1].v) = 2
    /\ traw[1].v[1]["link"] = None
    /\ traw[1].v[2]["link"] = None
    /\ tret.entries[1]["link"] = tentries[1]["link"]
    /\ tret.entries[2]["link"] = None

\* C9: an input entry turned into one entry: every field the transform
\* left None holds the input's value, every field it set keeps its value.
C9_MergeFallbackOneToOne ==
    /\ \A k \in 1..Len(tgroups) :
          (traw[k].ok /\ Len(traw[k].v) = 1)
          => /\ Len(tgroups[k]) = 1
             /\ \A f \in Fields :
                   tgroups[k][1][f] = IF traw[k].v[1][f] # None
                                      THEN traw[k].v[1][f]
                                      ELSE tentries[k][f]
    /\ (tvariant = "PerEntry" /\ tpc = "done" /\ tret.ok /\ Len(tentries) = 1 /\ Len(traw[1].v) = 1)
          => tret.entries = tgroups[1]

\* one output with a field the transform set over an input value and a
\* field backfilled from the input
C9_Witness ==
    /\ tvariant = "PerEntry"
    /\ tpc = "done"
    /\ tret.ok
    /\ Len(tentries) = 1
    /\ Len(traw[1].v) = 1
    /\ tentries[1]["title"] # None
    /\ traw[1].v[1]["title"] # None
    /\ tret.entries[1]["title"] = traw[1].v[1]["title"]
    /\ tentries[1]["link"] # None
    /\ traw[1].v[1]["link"] = None
    /\ tret.entries[1]["link"] = tentries[1]["link"]

\* C10: once transform_one fails on an entry, transform returns the error
\* and no entries, the error holds that entry as it was handed in, and no
\* later entry is transformed.
C10_ErrorAbortsBatch ==
    /\ Len(traw) = ti
    /\ \A k \in 1..Len(traw) : ~traw[k].ok =>
          /\ k = ti
          /\ tpc = "done"
          /\ ~tret.ok
          /\ tret.entries = << >>
          /\ tret.kind = traw[k].kind
          /\ tret.original_entry = Some(tentries[k])
    /\ (tpc = "done" /\ ~tret.ok) => ti >= 1 /\ ~traw[ti].ok

\* the second of three entries failed after the first had been expanded
C10_Witness ==
    /\ tvariant = "PerEntry"
    /\ tpc = "done"
    /\ ~tret.ok
    /\ Len(tentries) = 3
    /\ ti = 2
    /\ Len(tgroups[1]) >= 1
    /\ tret.original_entry = Some(tentries[2])
    /\ \E f \in Fields : tentries[2][f] # None

RECURSIVE Flatten(_)
Flatten(groups) ==
    IF groups = << >> THEN << >> ELSE Head(groups) \o Flatten(Tail(groups))

\* sub holds elements of list only, in the order list has them
KeepsOrderOf(list, sub) ==
    /\ \A i \in 1..Len(sub) : Position(list, sub[i]) # 0
    /\ \A i, j \in 1..Len(sub) :
          i < j => Position(list, sub[i]) < Position(list, sub[j])

\* C11: a per-entry transform over e1..en returns the entries made of e1,
\* then those of e2, and so on, each group in the order the transform
\* produced it; the ReadFilter variant returns survivors in the order the
\* batch had them.
C11_OrderPreserved ==
    /\ (tvariant = "PerEntry" /\ tpc = "loop") => tacc = Flatten(tgroups)
    /\ \A k \in 1..Len(tgroups) :
          /\ Len(tgroups[k]) = Len(traw[k].v)
          /\ \A j \in 1..Len(tgroups[k]) : \A f \in Fields :
                traw[k].v[j][f] # None => tgroups[k][j][f] = traw[k].v[j][f]
    /\ (tvariant = "PerEntry" /\ tpc = "done" /\ tret.ok)
          => /\ Len(tgroups) = Len(tentries)
             /\ tret.entries = Flatten(tgroups)
    /\ (tvariant = "ReadFilter" /\ tpc = "done")
          => tret.ok /\ KeepsOrderOf(tentries, tret.entries)

\* three entries went through a per-entry transform, the first made into
\* two entries and the last into one
C11_Witness ==
    /\ tvariant = "PerEntry"
    /\ tpc = "done"
    /\ tret.ok
    /\ Len(tentries) = 3
    /\ Len(tgroups[1]) = 2
    /\ Len(tgroups[3]) = 1
    /\ Len(tret.entries) >= 3

\* the ReadFilter variant removed an entry and kept two
C11_FilterKeptTwo ==
    /\ tvariant = "ReadFilter"
    /\ tpc = "done"
    /\ Len(tentries) = 3
    /\ Len(tret.entries) = 2

----------------------------------------------------------------------------
(* Properties of the Telegram sink.                                        *)

\* C12: a server that answers "retry after" k times and then succeeds:
\* send makes exactly k + 1 attempts, all with the same payload, sleeps the
\* seconds of each retry-after answer before the next attempt, returns
\* success with one message delivered, and does nothing after that.
C12_RetryAfterThenSuccess ==
    /\ [](sarg # None /\ sscript[1].final = "ok" =>
            /\ Len(sslept) = IF spc = "sleep" THEN sn - 1
                             ELSE IF spc = "attempt" THEN sn ELSE sn - 1
            /\ \A i \in 1..Len(sslept) : sslept[i] = sscript[1].retries[i]
            /\ spc = "sleep" => spending = sscript[1].retries[sn]
            /\ ssent \subseteq {sarg[1]}
            /\ sdelivered = IF spc = "done" THEN 1 ELSE 0
            /\ spc = "done" =>
                  /\ sresult = "ok"
                  /\ sn = Len(sscript[1].retries) + 1
                  /\ sslept = sscript[1].retries)
    /\ [][spc = "done" => UNCHANGED svars]_vars

\* one "retry after 2" answer, then success: two attempts, one sleep of
\* two seconds, one message delivered
C12_Witness ==
    /\ spc = "done"
    /\ sresult = "ok"
    /\ sscript[1].retries = << 2 >>
    /\ sn = 2
    /\ sslept = << 2 >>
    /\ sdelivered = 1

\* C13: an error answer other than "retry after" is the last thing the loop
\* sees: send has returned an error, with no sleep and no attempt after it,
\* on the first attempt as well as after retry-after answers.
C13_OtherErrorEndsSend ==
    /\ [](\A i \in 1..Len(sanswers) : sanswers[i] = "err" =>
            /\ i = Len(sanswers)
            /\ i = sn
            /\ spc = "done"
            /\ sresult = "err"
            /\ spending = 0
            /\ Len(sslept) = i - 1
            /\ sdelivered = 0)
    /\ [](sresult = "err" => sanswers[Len(sanswers)] = "err")
    /\ [][sresult = "err" => UNCHANGED svars]_vars

\* an error answer came after two retry-after answers
C13_Witness ==
    /\ spc = "done"
    /\ sresult = "err"
    /\ sanswers = << "retry", "retry", "err" >>
    /\ Len(sslept) = 2

\* C14: the loop returns only on a success or a non-retry error answer; it
\* returns whenever the server stops answering "retry after", however many
\* such answers came first, and never when the server answers "retry after"
\* for ever.
C14_ReturnsIffServerStopsRetrying ==
    /\ [](spc = "done" => sanswers[Len(sanswers)] \in {"ok", "err"})
    /\ [](sscript # None /\ sscript[1].final = "retry" => spc # "done")
    /\ [](sarg # None /\ sscript[1].final # "retry" => <>(spc = "done"))

\* the server has answered "retry after" more often than any server that
\* stops retrying, and the loop is going on
C14_Witness ==
    /\ sscript # None
    /\ sscript[1].final = "retry"
    /\ sn = MaxHistory
    /\ Len(sslept) = MaxHistory
    /\ spc = "attempt"

\* C15: a text longer than the limit is cut to the limit less the ellipsis
\* and ended with "..." before the first attempt, a text within the limit is
\* sent as it is, every attempt carries that text, and no attempt carries a
\* text over the limit.
C15_TruncatedBeforeFirstAttempt ==
    spc # "idle" =>
        /\ spc # "panic"
        /\ sarg # None
        /\ sarg[1].text =
              IF StrLen(smsg[1].text) > MaxTextLen
              THEN Text(MaxTextLen - EllipsisLen, smsg[1].text.width, EllipsisLen)
              ELSE smsg[1].text
        /\ \A payload \in ssent :
              payload = sarg[1] /\ StrLen(payload.text) <= MaxTextLen

----------------------------------------------------------------------------
(* Properties of the access token.                                         *)

\* an access_token() call begins
CallStep == apc = "idle" /\ acalls' = acalls + 1
\* the exchange of a call ends with a token / with an error
RefreshedStep == apc = "exchanging" /\ apc' = "idle" /\ aret'.ok
FailedStep == apc = "exchanging" /\ apc' = "idle" /\ ~aret'.ok

\* C16: a call at time t starts a refresh exchange iff t >= expires_at; a
\* call strictly before expires_at makes no exchange and returns the stored
\* token; a refresh replaces access_token and expires_at by what the
\* server answered and returns the new token.
C16_RefreshIffExpired ==
    /\ [][CallStep =>
            /\ apc' = "exchanging" <=> anow >= aexpires
            /\ anow < aexpires => aret' = OkToken(atoken) /\ aissued' = aissued
            /\ UNCHANGED << atoken, aexpires >>]_vars
    /\ [](apc = "exchanging" => acalled >= aexpires)
    /\ [][RefreshedStep =>
            /\ atoken' = aresp'[1].access_token
            /\ atoken' # atoken
            /\ aexpires' = anow + aresp'[1].expires_in
            /\ aret' = OkToken(atoken')]_vars

\* a call made exactly at expires_at, later than instant 0, is exchanging
C16_Witness ==
    /\ apc = "exchanging"
    /\ acalled = aexpires
    /\ acalled > 0

\* a call made one second before expires_at returned the stored token
C16_JustBefore ==
    /\ apc = "idle"
    /\ acalls > 0
    /\ acalled + 1 = aexpires
    /\ aret = OkToken(atoken)
    /\ aattempts = 0

\* C17: an expired token whose refresh exchange fails: access_token()
\* returns an authentication error after exactly one exchange, the stored
\* access_token and expires_at are as before, and the next call starts a
\* refresh again.
C17_FailedRefreshIsAuthError ==
    /\ [](aattempts <= 1)
    /\ [][FailedStep =>
            /\ aret'.kind = "GoogleAuth"
            /\ aattempts' = 1
            /\ UNCHANGED << atoken, aexpires >>]_vars
    /\ [][(CallStep /\ ~aret.ok /\ aret.kind # "none") => apc' = "exchanging"]_vars

\* what C17 says of everything but the kind of the error
FailedRefreshKeepsState ==
    /\ [](aattempts <= 1)
    /\ [][FailedStep =>
            /\ aret'.kind \in {"GoogleAuth", "Network"}
            /\ aattempts' = 1
            /\ UNCHANGED << atoken, aexpires >>]_vars
    /\ [][(CallStep /\ ~aret.ok /\ aret.kind # "none") => apc' = "exchanging"]_vars

\* a call is refreshing again after the call before it failed to
FailedRefreshTriedAgain ==
    /\ apc = "exchanging"
    /\ acalls = 2
    /\ ~aret.ok

----------------------------------------------------------------------------
(* Properties of Task::parse.                                              *)

\* the read filters the built task's source and actions were given
TaskReadFilters(task) ==
    (IF task.source = None THEN {} ELSE {task.source[1].rf}) \cup
    { task.actions[i].rf : i \in 1..Len(task.actions) }

\* C18: read filter provisioning: no kind configured, the provider is not
\* asked; a ready filter, the task's source and actions are given it;
\* unavailable, parse goes on and the task is built without one; a provider
\* error, and only that, makes parse return that error, with no task and
\* nothing done after it.
C18_ReadFilterProvisioning ==
    ppc \notin {"idle", "rf"} =>
        LET cfg == pcfg[1]
            answer == pext[1].read_filter
            asked == { i \in 1..Len(pconsulted) : pconsulted[i] = "read_filter" }
        IN /\ cfg.read_filter_kind = None =>
                 asked = {} /\ prf = None /\ pret.err # "read_filter"
           /\ cfg.read_filter_kind # None => asked = {1}
           /\ (cfg.read_filter_kind # None /\ answer = "Ok") =>
                 /\ prf = Some(Handle(cfg.read_filter_kind[1]))
                 /\ pret.err # "read_filter"
                 /\ pret.ok => TaskReadFilters(pret.task[1]) \subseteq {prf}
           /\ (cfg.read_filter_kind # None /\ answer = "Unavailable") =>
                 /\ prf = None
                 /\ pret.err # "read_filter"
                 /\ (ppc = "done" /\ pret.err = "none") =>
                       pret.ok /\ TaskReadFilters(pret.task[1]) \subseteq {None}
           /\ (cfg.read_filter_kind # None /\ answer = "Err") =>
                 /\ ppc = "done"
                 /\ pret = ErrTask("read_filter")
                 /\ pconsulted = << "read_filter" >>
                 /\ pactions = << >>

\* the provider had no read filter and the task, with a source and a
\* read-filter action, was built without one
C18_Witness ==
    /\ ppc = "done"
    /\ pcfg[1].read_filter_kind # None
    /\ pext[1].read_filter = "Unavailable"
    /\ pret.ok
    /\ pret.task[1].source = Some([rf |-> None])
    /\ Len(pret.task[1].actions) >= 1
    /\ pret.task[1].actions[1] = [kind |-> "read_filter", rf |-> None]

\* the provider's error ended parse
C18_ResolverError ==
    /\ ppc = "done"
    /\ pret = ErrTask("read_filter")

\* a ready read filter was given to the source and to an action
C18_Ready ==
    /\ ppc = "done"
    /\ pret.ok
    /\ prf # None
    /\ TaskReadFilters(pret.task[1]) = {prf}
    /\ pret.task[1].source # None
    /\ Len(pret.task[1].actions) >= 1

----------------------------------------------------------------------------
(* Properties of the JSON extraction.                                      *)

\* the error of the first failing item is the one returned: every item
\* before the one the closure stopped at was extracted
OrderFirst ==
    (jpc = "done" /\ ~jret.ok /\ ji >= 1) =>
        /\ \A k \in 1..(ji - 1) : ItemEntry(jcfg[1], jitems[k]).status = "ok"
        /\ ItemEntry(jcfg[1], jitems[ji]).status = "err"
        /\ jret.err = ItemEntry(jcfg[1], jitems[ji]).err

\* C19: the document {"items":[{"id":1},{"id":"x"}]}, item path ["items"],
\* id path "id", title path a key the first item has not: extraction fails
\* with the key-not-found error of the first item's title; and the error
\* returned is always that of the first failing item.
C19_FirstItemTitleError ==
    /\ (/\ jpc \in {"done", "panic"}
        /\ jbody = Some(JObj(<< << "items", JArr(TwoItems) >> >>))
        /\ jcfg[1].itemq = << "items" >>
        /\ jcfg[1].idq = "id"
        /\ jcfg[1].titleq = Some("title")
        /\ jcfg[1].textq = << >>
        /\ jcfg[1].linkq = None
        /\ jcfg[1].imgq = None)
       => /\ jpc = "done"
          /\ ~jret.ok
          /\ jret.err = Some(ErrKeyNotFound("title"))
          /\ ji = 1
    /\ OrderFirst

\* the value a path leads to from an item, by the path alone
RECURSIVE Reached(_, _)
Reached(val, path) ==
    IF path = << >> THEN Some(val)
    ELSE IF val.t # "object" THEN None
    ELSE IF \A i \in 1..Len(val.o) : val.o[i][1] # Head(path) THEN None
    ELSE Reached(val.o[CHOOSE i \in 1..Len(val.o) : val.o[i][1] = Head(path)][2],
                 Tail(path))

\* a lookup of a configured text, id, link or image path misses or finds a
\* value of the wrong type
LookupFails(cfg, item) ==
    LET Str(path) == Reached(item, path) # None /\ Reached(item, path)[1].t = "string"
        Id(path) == Reached(item, path) # None
                        /\ Reached(item, path)[1].t \in {"string", "number"}
    IN \/ \E i \in 1..Len(cfg.textq) : ~Str(<< cfg.textq[i].string >>)
       \/ ~Id(<< cfg.idq >>)
       \/ cfg.linkq # None /\ ~Str(<< cfg.linkq[1].string >>)
       \/ cfg.imgq # None /\ ~Str(cfg.imgq[1])

\* C20: if a configured lookup of any item misses or finds the wrong type,
\* Json::parse returns an error and no entries, whatever the other items
\* are; it returns entries only when every item extracts, one entry per
\* item in the order of the items.
C20_NoPartialSuccess ==
    /\ (jpc \in {"done", "panic"} /\ jitems # << >>
            /\ \E k \in 1..Len(jitems) : LookupFails(jcfg[1], jitems[k]))
       => /\ jpc = "done"
          /\ ~jret.ok
          /\ jret.entries = << >>
    /\ (jpc = "done" /\ jret.ok)
       => /\ Len(jret.entries) = Len(jitems)
          /\ \A k \in 1..Len(jitems) :
                /\ ~LookupFails(jcfg[1], jitems[k])
                /\ jret.entries[k] = ItemEntry(jcfg[1], jitems[k]).entry[1]

\* the first segment of a path that the walk from the root cannot follow
FirstMissing(root, path) ==
    path[CHOOSE k \in 1..Len(path) :
            /\ Reached(root, SubSeq(path, 1, k)) = None
            /\ \A j \in 1..(k - 1) : Reached(root, SubSeq(path, 1, j)) # None]

\* the values of an object in the order of its map
ObjectValues(val) == [i \in 1..Len(val.o) |-> val.o[i][2]]

\* C21: the item path is followed key by key from the document root: a
\* missing key is the key-not-found error of that key; an array reached
\* gives its elements as the items, an object its values; any other value
\* is the wrong-type error of the last path segment, the expected kinds and
\* the value found.
C21_ItemPathFollowed ==
    (jpc \in {"items", "done", "panic"} /\ ji = 0 /\ jbody # Some(NotJson)) =>
        LET path == jcfg[1].itemq
            end == Reached(jbody[1], path)
        IN IF end = None
           THEN /\ jpc = "done"
                /\ jret = ErrEntries(ErrKeyNotFound(FirstMissing(jbody[1], path)))
           ELSE IF end[1].t = "array"
           THEN /\ jpc \in {"items", "done"}
                /\ jitems = end[1].a
                /\ jpc = "done" => jret = OkEntries(<< >>)
           ELSE IF end[1].t = "object"
           THEN /\ jpc \in {"items", "done"}
                /\ jitems = ObjectValues(end[1])
                /\ jpc = "done" => jret = OkEntries(<< >>)
           ELSE /\ jpc = "done"
                /\ path # << >>
                /\ jret = ErrEntries(ErrKeyWrongType(path[Len(path)],
                                        "iterator (array, map)", end[1]))

\* the same with an item path of at least one segment
C21_NonEmptyPath ==
    (jcfg # None /\ jcfg[1].itemq # << >>) => C21_ItemPathFollowed

\* a wrong-type error at the end of a path of two segments, and a
\* key-not-found error at its second segment
C21_NestedWrongType ==
    /\ jpc = "done"
    /\ jcfg[1].itemq = << "data", "items" >>
    /\ jret = ErrEntries(ErrKeyWrongType("items", "iterator (array, map)", JNum(4)))

C21_NestedMissing ==
    /\ jpc = "done"
    /\ jcfg[1].itemq = << "data", "items" >>
    /\ jbody[1].t = "object"
    /\ Get(jbody[1], "data") # None
    /\ jret = ErrEntries(ErrKeyNotFound("items"))

C21_ObjectValues ==
    /\ jpc = "items"
    /\ Reached(jbody[1], jcfg[1].itemq)[1].t = "object"
    /\ jitems = TwoItems

----------------------------------------------------------------------------
(* Properties of the stored read filter.                                   *)

\* parse builds the filter of the stored strategy with exactly the stored
\* ids in the stored order, and no value of one strategy loads as the other
ParsedAsStored ==
    cpc \in {"parsed", "unparsed"} =>
        /\ (cfilter[1].kind = KindNewer) <=> (craw[1].type = TagNewer)
        /\ (cfilter[1].kind = KindNotPresent) <=> (craw[1].type = TagNotPresent)
        /\ craw[1].type = TagNewer =>
              /\ cfilter[1].last_read_id = craw[1].last_read_id
              /\ cfilter[1].read_list = << >>
        /\ craw[1].type = TagNotPresent =>
              /\ cfilter[1].read_list = craw[1].read_list[1]
              /\ cfilter[1].last_read_id = None

\* the stored read list is empty
StoredEmptyList ==
    ccfg # None /\ ccfg[1].type = TagNotPresent /\ ccfg[1].read_list = Some(<< >>)

\* C22: the persisted state round-trips: for every persisted value, a single
\* last-read id or an ordered list of ids, parse builds the filter of that
\* strategy with those ids in that order and unparse of it gives back the
\* same persisted value; no value of one strategy loads as the other.
C22_RoundTrip ==
    /\ ParsedAsStored
    /\ cpc = "unparsed" => csaved = ccfg

\* C22 as the code has it: the round trip holds for a last-read id and for
\* every read list of at least one id; for the empty read list unparse
\* gives nothing to persist.
C22_RoundTripNonEmpty ==
    /\ ParsedAsStored
    /\ (cpc = "unparsed" /\ ~StoredEmptyList) => csaved = ccfg
    /\ (cpc = "unparsed" /\ StoredEmptyList) => csaved = None

\* a read list of two ids, the larger first, came back as it was stored
C22_Witness ==
    /\ cpc = "unparsed"
    /\ ccfg = Some(ConfigNotPresent(<< 2, 1 >>))
    /\ cfilter[1].read_list = << 2, 1 >>
    /\ csaved = ccfg

\* the empty read list came back as nothing
C22_EmptyListLost ==
    cpc = "unparsed" /\ StoredEmptyList /\ csaved = None

----------------------------------------------------------------------------
(* Properties of the Email source.                                         *)

\* C23: once set_read_only() has been called, every later mark_as_read(id)
\* returns success at once and no step of the source changes the INBOX (no
\* \Seen or \Deleted flag stored, nothing expunged), whatever fetch and
\* mark_as_read calls follow; the view mode stays ReadOnly.
C23_ReadOnlyStays ==
    [][mro =>
         /\ mbox' = mbox
         /\ mview = "ReadOnly" /\ mview' = "ReadOnly"
         /\ (mcalls' # mcalls /\ mop' # "fetch") =>
               /\ mop' = "none"
               /\ mpc' = "idle"
               /\ mret'.op = "mark_as_read"
               /\ mret'.ret = "ok"]_vars

\* a source that marked mail 1 as read was set read-only, and a later
\* mark_as_read(2) returned Ok with mail 2 still unseen
C23_Witness ==
    /\ mro
    /\ mbox[1].seen
    /\ ~mbox[2].seen
    /\ mret = [op |-> "mark_as_read", id |-> 2, ret |-> "ok"]
    /\ mpc = "idle"

\* a fetch was made after set_read_only
C23_FetchAfter ==
    mro /\ mret.op = "fetch" /\ mret.ret = "ok"

\* the number of events of a login that are of the given kinds
Count(log, kinds) == Cardinality({ i \in 1..Len(log) : log[i] \in kinds })

Authentications(log) == Count(log, {"accepted", "denied"})
ForcedRefreshes(log) == Count(log, {"refreshed", "refresh_failed"})

\* the operation in progress has returned ret
Returned(ret) == mpc = "idle" /\ mret.ret = ret

\* C29: the IMAP login with Google OAuth2 retries at most once: a denied
\* first authenticate is followed by one forced token refresh and exactly
\* one more authenticate; a second denial ends with the authentication
\* error, a failed refresh with the OAuth2 error and no second
\* authenticate; a password login is never retried.
C29_LoginRetriesOnce ==
    /\ Authentications(mlog) <= 2
    /\ ForcedRefreshes(mlog) <= 1
    /\ mauth = "Password" =>
          /\ mlog \in {<< >>, << "accepted" >>, << "denied" >>}
          /\ mlog = << "denied" >> => Returned("Auth")
    /\ mauth = "GmailOAuth2" =>
          /\ mlog \in {<< >>, << "token_failed" >>, << "accepted" >>, << "denied" >>,
                       << "denied", "refresh_failed" >>, << "denied", "refreshed" >>,
                       << "denied", "refreshed", "token_failed" >>,
                       << "denied", "refreshed", "accepted" >>,
                       << "denied", "refreshed", "denied" >>}
          /\ mlog = << "denied" >> => mpc = "refresh"
          /\ mlog = << "denied", "refreshed" >> => mpc = "authenticate2"
          /\ mlog = << "denied", "refreshed", "denied" >> => Returned("Auth")
          /\ mlog = << "denied", "refresh_failed" >> => Returned("GoogleOAuth2")
          /\ (mlog # << >> /\ mlog[Len(mlog)] = "token_failed") =>
                Returned("GoogleOAuth2")
    /\ (mlog # << >> /\ mlog[Len(mlog)] = "accepted") =>
          \/ mpc \in {"session", "store", "expunge", "logout"}
          \/ mpc = "idle" /\ mret.ret \in {"ok", "Other", "Parse"}

\* denied, refreshed and denied again: the authentication error
C29_Witness ==
    /\ mauth = "GmailOAuth2"
    /\ mlog = << "denied", "refreshed", "denied" >>
    /\ Returned("Auth")

\* denied, and the refresh failed
C29_RefreshFailed ==
    /\ mlog = << "denied", "refresh_failed" >>
    /\ Returned("GoogleOAuth2")

\* denied, refreshed and accepted: the operation went on
C29_SecondAccepted ==
    /\ mlog = << "denied", "refreshed", "accepted" >>
    /\ Returned("ok")
    /\ mret.op = "mark_as_read"

\* a password login was denied
C29_PasswordDenied ==
    mauth = "Password" /\ mlog = << "denied" >> /\ Returned("Auth")

----------------------------------------------------------------------------
(* Properties of the Twitter reader.                                       *)

\* the stored last read guid as a number, 0 when there is none
Watermark(saved) ==
    IF LastReadGuid(saved) = None THEN 0 ELSE LastReadGuid(saved)[1]

\* C24: the stored last read guid is only ever replaced by the id of a
\* tweet whose send returned Ok in that run: never by a tweet the filters
\* skipped, one still to be sent, or one whose send failed.
C24_SavedAfterDelivery ==
    [][LastReadGuid(wsaved') # LastReadGuid(wsaved) =>
         \E id \in wsent :
            /\ wsaved' = Some(IntToString(id))
            /\ LastReadGuid(wsaved') = Some(id)
            /\ wdelivered[id] >= 1
            /\ id \notin wskipped
            /\ id \notin Range(wqueue)
            /\ wret' = "ok"]_vars

\* a run that sent nothing stored again the guid it had read
C24_SameGuidStoredAgain ==
    /\ wpc = "idle"
    /\ wret = "ok"
    /\ wsent = {}
    /\ wbefore = Some(<< " ", "0", "\n" >>)
    /\ wsaved = Some(<< "0" >>)

\* with filters set, tweets 1 and 2 were sent and tweet 3 skipped, and the
\* stored guid is 2
C24_Witness ==
    /\ wpc = "idle"
    /\ wret = "ok"
    /\ wsent = {1, 2}
    /\ wskipped = {3}
    /\ wsaved = Some(<< "2" >>)

\* C27: a send that fails in the middle of a batch ends start with the
\* error and nothing stored, so the stored guid is the one from before the
\* run; the next run fetches again every tweet delivered above it; and
\* every tweet at or below the stored guid that the filters let through
\* has been delivered.
C27_FailedRunStoresNothing ==
    /\ [][(wpc = "loop" /\ wret' = "Telegram" /\ wpc' = "idle") =>
             /\ wsaved' = wsaved
             /\ wsaved' = wbefore]_vars
    /\ [][(wpc = "idle" /\ wpc' = "loop") =>
             \A id \in TweetIds :
                (wdelivered[id] >= 1 /\ id > Watermark(wsaved)) =>
                    id \in Range(wqueue')]_vars
    /\ [](\A id \in 1..Len(wtweets) :
             (id <= Watermark(wsaved) /\ (wfilters => wtweets[id])) =>
                 wdelivered[id] >= 1)

\* tweet 1 was delivered, the send of tweet 2 failed, and the next run
\* delivered tweet 1 again
C27_Witness ==
    /\ wdelivered[1] = 2
    /\ wdelivered[2] = 0
    /\ wstarts = 2
    /\ wpc = "loop"
    /\ wbefore = None
    /\ wsaved = None
    /\ wret = "Telegram"

----------------------------------------------------------------------------
(* More properties of Transform::transform.                                *)

\* C25: the ReadFilter variant is never run per entry: for every variant
\* and every batch, the empty one too, transform handles the ReadFilter
\* variant on the whole list in one step and never calls transform_one
\* with it, so the unreachable!() of transform_one is never reached.
C25_ReadFilterNeverPerEntry ==
    /\ tpc # "panic"
    /\ tvariant = "ReadFilter" =>
          /\ tpc \in {"filter", "done"}
          /\ ti = 0
          /\ traw = << >>
          /\ tgroups = << >>
    /\ (tvariant = "ReadFilter" /\ tpc = "done") =>
          tret = [ok |-> TRUE, entries |-> RemoveReadFromEntries(trf[1], tentries),
                  kind |-> "none", original_entry |-> None]
    /\ tpc = "filter" => tvariant = "ReadFilter"

\* the ReadFilter variant has returned from a batch of two entries
C25_Witness ==
    /\ tvariant = "ReadFilter"
    /\ tpc = "done"
    /\ Len(tentries) = 2
    /\ tret.ok

\* the ReadFilter variant has returned from the empty batch
C25_EmptyBatch ==
    /\ tvariant = "ReadFilter"
    /\ tpc = "done"
    /\ tentries = << >>
    /\ tret.ok
    /\ tret.entries = << >>

----------------------------------------------------------------------------
(* More properties of the Telegram sink.                                   *)

\* C26: for every text whose len() is over the limit the character at
\* index limit - 3 exists, so the unwrap of the truncation never fails, and
\* the truncated text, prefix and "...", is never longer than the limit;
\* texts of multi-byte characters included.
C26_TruncationUnwrapSafe ==
    (spc # "idle" /\ StrLen(smsg[1].text) > MaxTextLen) =>
        /\ CharIndicesNth(smsg[1].text, MaxTextLen - EllipsisLen) # None
        /\ spc # "panic"
        /\ sarg # None
        /\ CharCount(sarg[1].text) <= MaxTextLen

\* the truncated text is within the limit in bytes, as len() counts
C26_TruncatedWithinBytes ==
    (spc # "idle" /\ sarg # None /\ StrLen(smsg[1].text) > MaxTextLen) =>
        StrLen(sarg[1].text) <= MaxTextLen

\* a text over the limit in bytes and under it in characters made send panic
C26_Panicked ==
    /\ spc = "panic"
    /\ StrLen(smsg[1].text) > MaxTextLen
    /\ CharCount(smsg[1].text) <= MaxTextLen - EllipsisLen

----------------------------------------------------------------------------
(* More properties of the JSON extraction.                                 *)

\* Json::parse has ended, with a result or with a panic
JsonEnded == jpc \in {"done", "panic"}

\* C30: Json::parse ends with Ok or with an Err for every document and
\* every query configuration, never with a panic: with an empty item path
\* and a document root that is neither array nor object it returns the
\* wrong-type error, and with an empty image path an error or no image.
C30_NeverPanics ==
    /\ jpc # "panic"
    /\ jpc = "done" => (jret.ok \/ jret.err # None)
    /\ (JsonEnded /\ jbody # Some(NotJson) /\ jcfg[1].itemq = << >>
            /\ jbody[1].t \notin {"array", "object"}) =>
          /\ jpc = "done"
          /\ jret.err # None
          /\ jret.err[1].kind = "JsonParseKeyWrongType"
    /\ (JsonEnded /\ jcfg[1].imgq = Some(<< >>)) =>
          /\ jpc = "done"
          /\ jret.ok => \A k \in 1..Len(jret.entries) : jret.entries[k].media = None

\* the panic of itemq.last().unwrap() on an empty item path
C30_EmptyItemPathPanic ==
    /\ jpc = "panic"
    /\ jcfg[1].itemq = << >>
    /\ jbody = Some(JNum(3))
    /\ ji = 0

\* the panic of imgq[0] on an empty image path
C30_EmptyImagePathPanic ==
    /\ jpc = "panic"
    /\ jcfg[1].imgq = Some(<< >>)
    /\ ji >= 1

\* parse without an empty path never panics
C30_NonEmptyPaths ==
    (jcfg # None /\ jcfg[1].itemq # << >> /\ jcfg[1].imgq # Some(<< >>)) =>
        C30_NeverPanics

\* the handles of a built task point at the ledger RwLock::new made
LedgerOf(task, h) == hheap[HandleOf(task, h)]

\* C28: in a Task built by Task::parse with a provisioned ReadFilter the
\* source and every read-filter action hold handles to one and the same
\* ledger: all holders have the same handle, the ledger behind each is the
\* one every mark_as_read so far went to, a remove_read through any holder
\* gives what that one ledger gives, and the id of the last mark_as_read,
\* made through whichever holder, is not in its output.
C28_OneLedgerInstance ==
    (hpc = "built" /\ hone # None) =>
        /\ \A h, g \in Holders(htask[1]) :
              HandleOf(htask[1], h) = HandleOf(htask[1], g)
        /\ \A h \in Holders(htask[1]) : LedgerOf(htask[1], h) = hone[1]
        /\ hremove # None =>
              /\ hremove[1].out = RemoveReadFrom(hone[1], hremove[1].list)
              /\ hmark # None =>
                    hmark[1].id \notin Range(hremove[1].out)

\* an entry marked through the source is in the listing a read-filter
\* action of the same task filters next, and is removed from it
C28_Witness ==
    /\ hpc = "built"
    /\ hmark # None /\ hremove # None
    /\ hmark[1].holder = 0
    /\ hremove[1].holder > 0
    /\ hmark[1].id \in Range(hremove[1].list)
    /\ hmark[1].id \notin Range(hremove[1].out)
    /\ hremove[1].out # << >>

TypeOK ==
    /\ readers \subseteq Runs
    /\ writers \subseteq Runs
    /\ delivered \subseteq Ids
====
